---- MODULE Spec2Model ----
(***************************************************************************)
(* PaddiSense record-keeping backends (str, ipm, asm, wss, weather and the *)
(* older ipm_list script) as one state machine.                            *)
(*                                                                         *)
(* Every backend is a command-line script: one invocation loads its JSON   *)
(* files, mutates the document in memory, saves it and exits with a code   *)
(* and one printed line.  One action of this module is one invocation.     *)
(* The persisted files are the state; rc and out are the exit code and the *)
(* printed line of the last invocation.                                    *)
(*                                                                         *)
(* Text is modelled as a sequence of one-character strings so that         *)
(* strip(), upper(), lower() and the id slug functions are computed as the *)
(* code computes them.  Program literals that are never transformed        *)
(* (action names, error messages) are plain TLA+ strings.                  *)
(*                                                                         *)
(* A behaviour exercises the data directory of one backend (variable       *)
(* backend, chosen in Init): the backends write disjoint directories and   *)
(* share only the read-only registry, so their invocations commute.        *)
(***************************************************************************)
EXTENDS Integers, Sequences, FiniteSets, TLC

VARIABLES
    backend,        \* which backend script this behaviour invokes
    damage,         \* what is wrong with the bytes of its data file
    now,            \* the wall clock read by datetime.now()
    rc,             \* exit code of the last invocation
    out,            \* the line the last invocation printed
    str_mobs,       \* local_data/str/mobs.json          (<<>> = no file)
    str_config,     \* local_data/str/config.json
    asm_data,       \* local_data/asm/data.json
    ipm_inventory,  \* local_data/ipm/inventory.json
    ipm_config,     \* local_data/ipm/config.json
    wss_users,      \* local_data/wss/users.json
    wss_config,     \* local_data/wss/config.json
    weather_config, \* local_data/weather_api/config.json
    list_data,      \* JSON/ipm_inventory_products.json
    backups         \* the backups/ directory of the backend: name -> file

strFiles == <<str_mobs, str_config>>
asmFiles == <<asm_data>>
ipmFiles == <<ipm_inventory, ipm_config>>
wssFiles == <<wss_users, wss_config>>
weatherFiles == <<weather_config>>
listFiles == <<list_data>>
allFiles ==
    <<strFiles, asmFiles, ipmFiles, wssFiles, weatherFiles, listFiles,
      backups>>

vars == <<backend, damage, now, rc, out, allFiles>>

----------------------------------------------------------------------------
(* Bounds of the model *)

\* the clock, in seconds, runs over 0..MaxTime
MaxTime == 1
\* the audit lists (movements / transactions) hold at most MaxLog entries
MaxLog == 2
\* ... and at most MaxServiceLog entries where only service events are recorded
MaxServiceLog == 5
MaxBackups == 2

----------------------------------------------------------------------------
(* Text *)

Range(s) == {s[i] : i \in 1..Len(s)}

LowerAlpha ==
    <<"a","b","c","d","e","f","g","h","i","j","k","l","m",
      "n","o","p","q","r","s","t","u","v","w","x","y","z">>
UpperAlpha ==
    <<"A","B","C","D","E","F","G","H","I","J","K","L","M",
      "N","O","P","Q","R","S","T","U","V","W","X","Y","Z">>
Digits == {"0","1","2","3","4","5","6","7","8","9"}

\* str.upper() / str.lower(), one character
ToUpper == [c \in Range(LowerAlpha) |->
               UpperAlpha[CHOOSE i \in 1..26 : LowerAlpha[i] = c]]
ToLower == [c \in Range(UpperAlpha) |->
               LowerAlpha[CHOOSE i \in 1..26 : UpperAlpha[i] = c]]
UpperChar(c) == IF c \in DOMAIN ToUpper THEN ToUpper[c] ELSE c
LowerChar(c) == IF c \in DOMAIN ToLower THEN ToLower[c] ELSE c
RECURSIVE Upper(_)
Upper(s) ==
    IF s = <<>> THEN <<>> ELSE <<UpperChar(Head(s))>> \o Upper(Tail(s))
RECURSIVE Lower(_)
Lower(s) ==
    IF s = <<>> THEN <<>> ELSE <<LowerChar(Head(s))>> \o Lower(Tail(s))

\* str(n) of a natural number
DigitChars ==
    <<"0","1","2","3","4","5","6","7","8","9">>
RECURSIVE IntStr(_)
IntStr(n) ==
    IF n < 10 THEN <<DigitChars[n + 1]>>
    ELSE IntStr(n \div 10) \o <<DigitChars[(n % 10) + 1]>>

IsSpace(c) == c = " "

\* str.strip(): drop leading and trailing whitespace
RECURSIVE LStrip(_)
LStrip(s) ==
    IF s # <<>> /\ IsSpace(Head(s)) THEN LStrip(Tail(s)) ELSE s
RECURSIVE RStrip(_)
RStrip(s) ==
    IF s # <<>> /\ IsSpace(s[Len(s)]) THEN RStrip(SubSeq(s, 1, Len(s) - 1)) ELSE s
Strip(s) == RStrip(LStrip(s))

\* dict helpers
Put(f, k, v) == [x \in (DOMAIN f) \cup {k} |-> IF x = k THEN v ELSE f[x]]
Del(f, k) == [x \in (DOMAIN f) \ {k} |-> f[x]]
EmptyMap == [x \in {} |-> 0]

\* optional command-line arguments: <<>> is None, <<v>> is a given value
None == <<>>
Some(v) == <<v>>
Opt(S) == {None} \cup {Some(v) : v \in S}

\* an absent JSON key holding a timestamp
NoStamp == -1

Max(a, b) == IF a >= b THEN a ELSE b

----------------------------------------------------------------------------
(* The process boundary: exit code and printed line *)

\* The printed line is kept as its format string (msg) and the values
\* interpolated into it (val): {} marks a text, {n} a number, {b} a truth
\* value.

\* print(f"ERROR: ...", file=sys.stderr); return 1
Fail(msg, val) ==
    /\ rc' = 1
    /\ out' = [status |-> "ERROR", msg |-> msg, val |-> val]

\* print(f"OK:..."); return 0
Ok(msg, val) ==
    /\ rc' = 0
    /\ out' = [status |-> "OK", msg |-> msg, val |-> val]

----------------------------------------------------------------------------
(* String literals of the sources, spelled out as character sequences *)

s_CONFIRM ==
    <<"C","O","N","F","I","R","M">>
s_Quarantine ==
    <<"Q","u","a","r","a","n","t","i","n","e">>
s_Feedlot ==
    <<"F","e","e","d","l","o","t">>
s_Sold ==
    <<"S","o","l","d">>
s_Cows ==
    <<"C","o","w","s">>
s_Bulls ==
    <<"B","u","l","l","s">>
s_Angus ==
    <<"A","n","g","u","s">>
s_weaned ==
    <<"w","e","a","n","e","d">>
s_Weaned ==
    <<"W","e","a","n","e","d">>
s_version_1_0_0 ==
    <<"1",".","0",".","0">>
s_add ==
    <<"a","d","d">>
s_Mob_created ==
    <<"M","o","b"," ","c","r","e","a","t","e","d">>
s_delete ==
    <<"d","e","l","e","t","e">>
s_Mob_deleted ==
    <<"M","o","b"," ","d","e","l","e","t","e","d">>
s_births ==
    <<"b","i","r","t","h","s">>
s_reduction ==
    <<"r","e","d","u","c","t","i","o","n">>
s_colon_sp ==
    <<":"," ">>
s_sp_head ==
    <<" ","h","e","a","d">>
s_move ==
    <<"m","o","v","e">>
s_off_farm ==
    <<"o","f","f","_","f","a","r","m">>
s_Off_farm_colon ==
    <<"O","f","f","-","f","a","r","m",":"," ">>
s_return ==
    <<"r","e","t","u","r","n">>
s_off_dash_farm ==
    <<"o","f","f","-","f","a","r","m">>
s_Returned_to_farm ==
    <<"R","e","t","u","r","n","e","d"," ","t","o"," ","f","a","r","m">>
s_sw5 ==
    <<"s","w","5">>
s_SW5 ==
    <<"S","W","5">>
s_n1 ==
    <<"n","1">>
s_N1 ==
    <<"N","1">>
s_mob_1 ==
    <<"m","o","b","_","1">>
s_mob_2 ==
    <<"m","o","b","_","2">>
s_Herd ==
    <<"H","e","r","d">>
s_sale ==
    <<"s","a","l","e">>
s_zz ==
    <<"z","z">>
s_Mob2 ==
    <<"M","o","b","2">>
s_sp_CONFIRM ==
    <<" ","C","O","N","F","I","R","M">>
s_sp_Sold ==
    <<" ","S","o","l","d">>
s_sp_mob_1 ==
    <<" ","m","o","b","_","1">>

s_Tractor ==
    <<"T","r","a","c","t","o","r">>
s_Pump ==
    <<"P","u","m","p">>
s_Filter ==
    <<"F","i","l","t","e","r">>
s_Belt ==
    <<"B","e","l","t">>
s_Repair ==
    <<"R","e","p","a","i","r">>
s_Other ==
    <<"O","t","h","e","r">>
s_ea ==
    <<"e","a">>
s_L ==
    <<"L">>
s_UNKNOWN ==
    <<"U","N","K","N","O","W","N">>
s_T1 ==
    <<"T","1">>
s_t1 ==
    <<"t","1">>
s_P1 ==
    <<"P","1">>
s_p1 ==
    <<"p","1">>
s_asset ==
    <<"a","s","s","e","t">>
s_part ==
    <<"p","a","r","t">>
s_service ==
    <<"s","e","r","v","i","c","e">>
s_add_asset ==
    <<"a","d","d","_","a","s","s","e","t">>
s_edit_asset ==
    <<"e","d","i","t","_","a","s","s","e","t">>
s_delete_asset ==
    <<"d","e","l","e","t","e","_","a","s","s","e","t">>
s_add_part ==
    <<"a","d","d","_","p","a","r","t">>
s_edit_part ==
    <<"e","d","i","t","_","p","a","r","t">>
s_delete_part ==
    <<"d","e","l","e","t","e","_","p","a","r","t">>
s_stock_adjust ==
    <<"s","t","o","c","k","_","a","d","j","u","s","t">>
s_record_service ==
    <<"r","e","c","o","r","d","_","s","e","r","v","i","c","e">>
s_delete_service ==
    <<"d","e","l","e","t","e","_","s","e","r","v","i","c","e">>
s_Initial_stock ==
    <<"I","n","i","t","i","a","l"," ","s","t","o","c","k",":"," ">>
s_Changed_by ==
    <<"C","h","a","n","g","e","d"," ","b","y"," ">>
s_was ==
    <<" ","(","w","a","s"," ">>
s_now ==
    <<","," ","n","o","w"," ">>
s_Parts ==
    <<"P","a","r","t","s",":"," ">>
s_sp_on_sp ==
    <<" ","o","n"," ">>
s_sp_x ==
    <<" ","x">>
s_SE_ ==
    <<"S","E","_">>
s_Pivot ==
    <<"P","i","v","o","t">>
s_Chemical ==
    <<"C","h","e","m","i","c","a","l">>
s_Seed ==
    <<"S","e","e","d">>
s_Herbicide ==
    <<"H","e","r","b","i","c","i","d","e">>
s_Wheat ==
    <<"W","h","e","a","t">>
s_chemical ==
    <<"c","h","e","m","i","c","a","l">>
s_chemicals ==
    <<"c","h","e","m","i","c","a","l","s">>
s_seed ==
    <<"s","e","e","d">>
s_seeds ==
    <<"s","e","e","d","s">>
s_Chem_Shed ==
    <<"C","h","e","m"," ","S","h","e","d">>
s_Seed_Shed ==
    <<"S","e","e","d"," ","S","h","e","d">>
s_kg ==
    <<"k","g">>
s_initial_stock ==
    <<"i","n","i","t","i","a","l","_","s","t","o","c","k">>
s_edit_product ==
    <<"e","d","i","t","_","p","r","o","d","u","c","t">>
s_stock_in ==
    <<"s","t","o","c","k","_","i","n">>
s_stock_out ==
    <<"s","t","o","c","k","_","o","u","t">>
s_delete_product ==
    <<"d","e","l","e","t","e","_","p","r","o","d","u","c","t">>
s_Initial_stock_note ==
    <<"I","n","i","t","i","a","l"," ","s","t","o","c","k"," ","o","n"," ","p","r","o","d","u","c","t"," ","c","r","e","a","t","i","o","n">>
s_Product_details_updated ==
    <<"P","r","o","d","u","c","t"," ","d","e","t","a","i","l","s"," ","u","p","d","a","t","e","d">>
s_Product_deleted ==
    <<"P","r","o","d","u","c","t"," ","d","e","l","e","t","e","d">>
s_Urea ==
    <<"U","r","e","a">>
s_urea ==
    <<"u","r","e","a">>
s_UREA ==
    <<"U","R","E","A">>
s_Grain ==
    <<"G","r","a","i","n">>
s_user_1 ==
    <<"u","s","e","r","_","1">>
s_user_2 ==
    <<"u","s","e","r","_","2">>
s_person_a ==
    <<"p","e","r","s","o","n",".","a">>
s_sp_person_a ==
    <<" ","p","e","r","s","o","n",".","a">>
s_person_b ==
    <<"p","e","r","s","o","n",".","b">>
s_amy ==
    <<"a","m","y">>
s_bob ==
    <<"b","o","b">>
s_tracker_1 ==
    <<"d","e","v","i","c","e","_","t","r","a","c","k","e","r",".","a">>
s_tracker_2 ==
    <<"d","e","v","i","c","e","_","t","r","a","c","k","e","r",".","b">>
s_zone_home ==
    <<"z","o","n","e",".","h","o","m","e">>
s_Home ==
    <<"H","o","m","e">>
s_true ==
    <<"t","r","u","e">>
s_false ==
    <<"f","a","l","s","e">>
s_yes ==
    <<"y","e","s">>
s_on ==
    <<"o","n">>
s_1 ==
    <<"1">>
s_2 ==
    <<"2">>
s_3 ==
    <<"3">>
s_4 ==
    <<"4">>
s_9 ==
    <<"9">>
s_North ==
    <<"N","o","r","t","h">>
s_South ==
    <<"S","o","u","t","h">>
s_imei_1 ==
    <<"8","6","0","0">>
s_imei_2 ==
    <<"8","6","0","1">>
s_version_1_1_0 ==
    <<"1",".","1",".","0">>
s_CHEM ==
    <<"C","H","E","M">>
s_SEED ==
    <<"S","E","E","D">>
s_IPM ==
    <<"I","P","M">>
s_ITEM ==
    <<"I","T","E","M">>
s_LOC ==
    <<"L","O","C">>
s_use ==
    <<"u","s","e">>
s_upsert ==
    <<"u","p","s","e","r","t">>
s_Shed ==
    <<"S","h","e","d">>
s_shed_sp ==
    <<"s","h","e","d"," ">>
s_Urea_bang ==
    <<"U","r","e","a","!">>
s_sp_urea ==
    <<" ","u","r","e","a">>
s_Use ==
    <<"U","s","e">>
s_user_3 ==
    <<"u","s","e","r","_","3">>
s_inventory_ ==
    <<"i","n","v","e","n","t","o","r","y","_">>
s_pre_import_ ==
    <<"p","r","e","_","i","m","p","o","r","t","_">>
s_pre_reset_ ==
    <<"p","r","e","_","r","e","s","e","t","_">>
s_stock_ ==
    <<"s","t","o","c","k","_">>
s_dot_json ==
    <<".","j","s","o","n">>
s_stamp_day ==
    <<"2","0","2","6","-","0","1","-","0","1","_","0","0","0","0">>
s_CONFIRM_RESET ==
    <<"C","O","N","F","I","R","M","_","R","E","S","E","T">>
s_sp_CONFIRM_RESET ==
    <<" ","C","O","N","F","I","R","M","_","R","E","S","E","T">>
s_notes_txt ==
    <<"n","o","t","e","s",".","t","x","t">>
s_old_json ==
    <<"o","l","d",".","j","s","o","n">>
s_empty_json ==
    <<"e","m","p","t","y",".","j","s","o","n">>
s_missing_json ==
    <<"m","i","s","s","i","n","g",".","j","s","o","n">>
s_Poddies ==
    <<"P","o","d","d","i","e","s">>
s_chem_shed ==
    <<"c","h","e","m"," ","s","h","e","d">>
s_farm_json ==
    <<"f","a","r","m",".","j","s","o","n">>
s_Atrazine ==
    <<"A","t","r","a","z","i","n","e">>
s_Glyphosate ==
    <<"G","l","y","p","h","o","s","a","t","e">>
s_fertiliser ==
    <<"f","e","r","t","i","l","i","s","e","r">>
s_fertilizer ==
    <<"f","e","r","t","i","l","i","z","e","r">>
s_fertilisers ==
    <<"f","e","r","t","i","l","i","s","e","r","s">>
s_Fertiliser ==
    <<"F","e","r","t","i","l","i","s","e","r">>
s_lubricant ==
    <<"l","u","b","r","i","c","a","n","t">>
s_lubricants ==
    <<"l","u","b","r","i","c","a","n","t","s">>
s_oil ==
    <<"o","i","l">>
s_Lubricant ==
    <<"L","u","b","r","i","c","a","n","t">>
s_Nitrogen ==
    <<"N","i","t","r","o","g","e","n">>
s_Grease ==
    <<"G","r","e","a","s","e">>
s_FERT ==
    <<"F","E","R","T">>
s_LUBE ==
    <<"L","U","B","E">>
s_FERT_UREA_ ==
    <<"F","E","R","T","_","U","R","E","A","_">>
s_sp_Fertilizer_sp ==
    <<" ","F","e","r","t","i","l","i","z","e","r"," ">>
----------------------------------------------------------------------------
(* STR - stock tracker (str_backend.py)                                    *)

\* The default vocabularies.  The model keeps the leading entries of each
\* list of the source; the commands treat every entry alike.
DEFAULT_AGE_CLASSES == <<s_Cows, s_Bulls>>
DEFAULT_CROSSES == <<s_Angus>>
DEFAULT_ATTRIBUTES == <<[id |-> s_weaned, name |-> s_Weaned]>>
DEFAULT_OFF_FARM_LOCATIONS == <<s_Feedlot, s_Sold>>

\* The ids uuid4 can hand out.  generate_mob_id never re-checks the id
\* against the document; the model draws a fresh one (no uuid collision).
MobIds == {s_mob_1}

\* The shared registry document (read-only input of this backend).
load_registry ==
    [paddocks |-> (s_sw5 :> [name |-> s_SW5]) @@ (s_n1 :> [name |-> s_N1])]

load_mobs ==
    IF str_mobs = <<>>
    THEN [mobs |-> EmptyMap, movements |-> <<>>,
          created |-> NoStamp, modified |-> NoStamp]
    ELSE str_mobs[1]

\* the document as save_mobs writes it
stamp_mobs(data) == [data EXCEPT !.modified = now]

save_mobs(data) == str_mobs' = <<stamp_mobs(data)>>

create_default_config ==
    [version |-> s_version_1_0_0,
     age_classes |-> DEFAULT_AGE_CLASSES,
     crosses |-> DEFAULT_CROSSES,
     attributes |-> DEFAULT_ATTRIBUTES,
     off_farm_locations |-> DEFAULT_OFF_FARM_LOCATIONS,
     created |-> now,
     modified |-> now]

str_load_config ==
    IF str_config = <<>> THEN create_default_config ELSE str_config[1]

str_save_config(config) == str_config' = <<[config EXCEPT !.modified = now]>>

log_movement(data, mob_id, mob_name, action, from_location, to_location, head_count, note) ==
    [data EXCEPT !.movements = Append(@,
        [timestamp |-> now,
         mob_id |-> mob_id,
         mob_name |-> mob_name,
         action |-> action,
         from_location |-> from_location,
         to_location |-> to_location,
         head_count |-> head_count,
         note |-> note])]

\* x in list
InList(x, list) == \E i \in 1..Len(list) : list[i] = x

\* [a for a in list if a != x]
Without(list, x) == SelectSeq(list, LAMBDA a : a # x)

Abs(n) == IF n < 0 THEN 0 - n ELSE n

\* a state check that lets every transition through
is_off_farm_ignored(mob) == FALSE

\* mob.get("off_farm", False)
is_off_farm(mob) == mob.off_farm

\* what every str command leaves alone
StrFrame ==
    UNCHANGED <<backend, damage, now, asmFiles, ipmFiles, wssFiles, weatherFiles,
                listFiles, backups>>

str_cmd_init ==
    /\ backend = "str"
    /\ IF str_config = <<>>
       THEN str_save_config(create_default_config)
       ELSE UNCHANGED str_config
    /\ IF str_mobs = <<>>
       THEN save_mobs([mobs |-> EmptyMap, movements |-> <<>>,
                       created |-> now, modified |-> now])
       ELSE UNCHANGED str_mobs
    /\ IF str_config = <<>> /\ str_mobs = <<>>
       THEN Ok("created:config,mobs", <<>>)
       ELSE IF str_config = <<>> THEN Ok("created:config", <<>>)
       ELSE IF str_mobs = <<>> THEN Ok("created:mobs", <<>>)
       ELSE Ok("already_initialized", <<>>)
    /\ StrFrame

cmd_add_mob(uuid, a_name, a_age_class, a_cross, a_head_count, a_location, a_attributes, a_notes) ==
    /\ backend = "str"
    /\ uuid \notin DOMAIN load_mobs.mobs
    /\ LET config == str_load_config
           data == load_mobs
           mobs == data.mobs
           name == Strip(a_name)
           age_class == Strip(a_age_class)
           cross == Strip(a_cross)
           head_count == IF a_head_count < 0 THEN 0 ELSE a_head_count
           location == Strip(a_location)
           paddocks == load_registry.paddocks
           valid_attr_ids ==
               [i \in 1..Len(config.attributes) |-> config.attributes[i].id]
           attributes ==
               SelectSeq(a_attributes, LAMBDA x : InList(x, valid_attr_ids))
       IN  IF name = <<>>
           THEN Fail("Mob name is required", <<>>) /\ UNCHANGED strFiles
           ELSE IF age_class # <<>> /\ ~InList(age_class, config.age_classes)
           THEN Fail("Invalid age class '{}'", <<age_class>>)
                /\ UNCHANGED strFiles
           ELSE IF cross # <<>> /\ ~InList(cross, config.crosses)
           THEN Fail("Invalid cross '{}'", <<cross>>) /\ UNCHANGED strFiles
           ELSE IF location # <<>> /\ location \notin DOMAIN paddocks
           THEN Fail("Invalid paddock '{}'", <<location>>)
                /\ UNCHANGED strFiles
           ELSE
             LET mob == [id |-> uuid,
                         name |-> name,
                         cross |-> cross,
                         age_class |-> age_class,
                         head_count |-> head_count,
                         location |-> location,
                         location_name |->
                             IF location # <<>> THEN paddocks[location].name
                             ELSE <<>>,
                         off_farm |-> FALSE,
                         off_farm_details |-> None,
                         attributes |-> attributes,
                         notes |-> Strip(a_notes),
                         created |-> now,
                         modified |-> now]
                 data1 == [data EXCEPT !.mobs = Put(mobs, uuid, mob)]
                 data2 == IF location # <<>>
                          THEN log_movement(data1, uuid, name, s_add, <<>>,
                                            location, head_count, s_Mob_created)
                          ELSE data1
             IN  /\ save_mobs(data2)
                 /\ UNCHANGED str_config
                 /\ Ok("{}", <<uuid>>)
    /\ StrFrame

\* the field updates of cmd_edit_mob: a field is overwritten when its
\* argument is not None
\* an edit that replaces the record's editable fields (PUT)
edited_mob_replaced(mob, a_name, a_age_class, a_cross, a_notes) ==
    [mob EXCEPT
        !.name = IF a_name # None THEN Strip(a_name[1]) ELSE <<>>,
        !.age_class = IF a_age_class # None THEN Strip(a_age_class[1]) ELSE <<>>,
        !.cross = IF a_cross # None THEN Strip(a_cross[1]) ELSE <<>>,
        !.notes = IF a_notes # None THEN Strip(a_notes[1]) ELSE <<>>]

\* the "if args.x is not None" assignments of cmd_edit_mob
edited_mob(mob, a_name, a_age_class, a_cross, a_notes) ==
    [mob EXCEPT
        !.name = IF a_name # None THEN Strip(a_name[1]) ELSE @,
        !.age_class = IF a_age_class # None THEN Strip(a_age_class[1]) ELSE @,
        !.cross = IF a_cross # None THEN Strip(a_cross[1]) ELSE @,
        !.notes = IF a_notes # None THEN Strip(a_notes[1]) ELSE @]

cmd_edit_mob(a_id, a_name, a_age_class, a_cross, a_notes) ==
    /\ backend = "str"
    /\ LET config == str_load_config
           data == load_mobs
           mobs == data.mobs
           mob_id == Strip(a_id)
       IN  IF mob_id \notin DOMAIN mobs
           THEN Fail("Mob '{}' not found", <<mob_id>>) /\ UNCHANGED strFiles
           ELSE IF /\ a_age_class # None
                   /\ Strip(a_age_class[1]) # <<>>
                   /\ ~InList(Strip(a_age_class[1]), config.age_classes)
           THEN Fail("Invalid age class '{}'", <<Strip(a_age_class[1])>>)
                /\ UNCHANGED strFiles
           ELSE IF /\ a_cross # None
                   /\ Strip(a_cross[1]) # <<>>
                   /\ ~InList(Strip(a_cross[1]), config.crosses)
           THEN Fail("Invalid cross '{}'", <<Strip(a_cross[1])>>)
                /\ UNCHANGED strFiles
           ELSE
             LET mob == [edited_mob(mobs[mob_id], a_name, a_age_class,
                                    a_cross, a_notes)
                            EXCEPT !.modified = now]
             IN  /\ save_mobs([data EXCEPT !.mobs[mob_id] = mob])
                 /\ UNCHANGED str_config
                 /\ Ok("{}", <<mob_id>>)
    /\ StrFrame

\* a delete that asks for no confirmation
delete_token_unchecked(a_token) == FALSE

\* the confirmation check of cmd_delete_mob: token != "CONFIRM"
delete_token_rejected(a_token) == Strip(a_token) # s_CONFIRM

cmd_delete_mob(a_id, a_token) ==
    /\ backend = "str"
    /\ LET data == load_mobs
           mobs == data.mobs
           mob_id == Strip(a_id)
       IN  IF mob_id \notin DOMAIN mobs
           THEN Fail("Mob '{}' not found", <<mob_id>>) /\ UNCHANGED strFiles
           ELSE IF delete_token_rejected(a_token)
           THEN Fail("Delete requires --token CONFIRM", <<>>)
                /\ UNCHANGED strFiles
           ELSE
             LET data1 == [data EXCEPT !.mobs = Del(mobs, mob_id)]
                 data2 == log_movement(data1, mob_id, mobs[mob_id].name,
                                       s_delete, <<>>, <<>>, 0, s_Mob_deleted)
             IN  /\ save_mobs(data2)
                 /\ UNCHANGED str_config
                 /\ Ok("deleted:{}", <<mob_id>>)
    /\ StrFrame

\* new_count = max(0, old_count + delta)
adjusted_count(old_count, delta) == Max(0, old_count + delta)

cmd_adjust_count(a_id, a_delta, a_reason, a_note) ==
    /\ backend = "str"
    /\ LET data == load_mobs
           mobs == data.mobs
           mob_id == Strip(a_id)
       IN  IF mob_id \notin DOMAIN mobs
           THEN Fail("Mob '{}' not found", <<mob_id>>) /\ UNCHANGED strFiles
           ELSE IF a_delta = 0
           THEN Ok("{n}", <<mobs[mob_id].head_count>>) /\ UNCHANGED strFiles
           ELSE
             LET mob == mobs[mob_id]
                 old_count == mob.head_count
                 new_count == adjusted_count(old_count, a_delta)
                 action == IF a_delta > 0 THEN s_births
                           ELSE IF a_reason # <<>> THEN Strip(a_reason)
                           ELSE s_reduction
                 note == IF a_note # <<>> THEN Strip(a_note)
                         ELSE action \o s_colon_sp \o IntStr(Abs(a_delta))
                              \o s_sp_head
                 data1 == [data EXCEPT !.mobs[mob_id] =
                              [mob EXCEPT !.head_count = new_count,
                                          !.modified = now]]
                 data2 == log_movement(data1, mob_id, mob.name, action,
                                       <<>>, <<>>, Abs(a_delta), note)
             IN  /\ save_mobs(data2)
                 /\ UNCHANGED str_config
                 /\ Ok("{n}", <<new_count>>)
    /\ StrFrame

cmd_move_mob(a_id, a_to_location, a_note) ==
    /\ backend = "str"
    /\ LET data == load_mobs
           mobs == data.mobs
           mob_id == Strip(a_id)
           to_location == Strip(a_to_location)
           paddocks == load_registry.paddocks
       IN  IF mob_id \notin DOMAIN mobs
           THEN Fail("Mob '{}' not found", <<mob_id>>) /\ UNCHANGED strFiles
           ELSE IF is_off_farm(mobs[mob_id])
           THEN Fail("Cannot move off-farm mob. Return to farm first.", <<>>)
                /\ UNCHANGED strFiles
           ELSE IF to_location = <<>>
           THEN Fail("Destination location is required", <<>>)
                /\ UNCHANGED strFiles
           ELSE IF to_location \notin DOMAIN paddocks
           THEN Fail("Invalid paddock '{}'", <<to_location>>)
                /\ UNCHANGED strFiles
           ELSE
             LET mob == mobs[mob_id]
                 data1 == [data EXCEPT !.mobs[mob_id] =
                              [mob EXCEPT !.location = to_location,
                                          !.location_name =
                                              paddocks[to_location].name,
                                          !.modified = now]]
                 data2 == log_movement(data1, mob_id, mob.name, s_move,
                                       mob.location, to_location,
                                       mob.head_count, Strip(a_note))
             IN  /\ save_mobs(data2)
                 /\ UNCHANGED str_config
                 /\ Ok("moved:{}", <<to_location>>)
    /\ StrFrame

\* a reason check against the built-in list instead of the configured one
off_farm_reason_not_default(reason, valid_reasons) ==
    ~InList(reason, DEFAULT_OFF_FARM_LOCATIONS)

\* the membership test of cmd_set_off_farm: reason not in valid_reasons
off_farm_reason_rejected(reason, valid_reasons) == ~InList(reason, valid_reasons)

\* a mob that goes off-farm and keeps its paddock
location_kept(from_location) == from_location

\* mob["location"] = "" of cmd_set_off_farm
location_off_farm(from_location) == <<>>

cmd_set_off_farm(a_id, a_reason, a_note) ==
    /\ backend = "str"
    /\ LET config == str_load_config
           data == load_mobs
           mobs == data.mobs
           mob_id == Strip(a_id)
           reason == Strip(a_reason)
       IN  IF mob_id \notin DOMAIN mobs
           THEN Fail("Mob '{}' not found", <<mob_id>>) /\ UNCHANGED strFiles
           ELSE IF is_off_farm(mobs[mob_id])
           THEN Fail("Mob is already off-farm", <<>>) /\ UNCHANGED strFiles
           ELSE IF reason = <<>>
           THEN Fail("Off-farm reason is required", <<>>)
                /\ UNCHANGED strFiles
           ELSE IF off_farm_reason_rejected(reason, config.off_farm_locations)
           THEN Fail("Invalid off-farm reason '{}'", <<reason>>)
                /\ UNCHANGED strFiles
           ELSE
             LET mob == mobs[mob_id]
                 from_location == mob.location
                 data1 == [data EXCEPT !.mobs[mob_id] =
                              [mob EXCEPT
                                 !.off_farm = TRUE,
                                 !.off_farm_details =
                                     Some([reason |-> reason,
                                           date |-> now,
                                           from_location |-> from_location,
                                           note |-> Strip(a_note)]),
                                 !.location = location_off_farm(from_location),
                                 !.location_name = <<>>,
                                 !.modified = now]]
                 data2 == log_movement(data1, mob_id, mob.name, s_off_farm,
                                       from_location, reason, mob.head_count,
                                       IF a_note # <<>> THEN Strip(a_note)
                                       ELSE s_Off_farm_colon \o reason)
             IN  /\ save_mobs(data2)
                 /\ UNCHANGED str_config
                 /\ Ok("off_farm:{}", <<reason>>)
    /\ StrFrame

cmd_return_to_farm(a_id, a_to_location, a_note) ==
    /\ backend = "str"
    /\ LET data == load_mobs
           mobs == data.mobs
           mob_id == Strip(a_id)
           to_location == Strip(a_to_location)
           paddocks == load_registry.paddocks
       IN  IF mob_id \notin DOMAIN mobs
           THEN Fail("Mob '{}' not found", <<mob_id>>) /\ UNCHANGED strFiles
           ELSE IF ~is_off_farm(mobs[mob_id])
           THEN Fail("Mob is not off-farm", <<>>) /\ UNCHANGED strFiles
           ELSE IF to_location = <<>>
           THEN Fail("Destination paddock is required", <<>>)
                /\ UNCHANGED strFiles
           ELSE IF to_location \notin DOMAIN paddocks
           THEN Fail("Invalid paddock '{}'", <<to_location>>)
                /\ UNCHANGED strFiles
           ELSE
             LET mob == mobs[mob_id]
                 from_location == mob.off_farm_details[1].reason
                 data1 == [data EXCEPT !.mobs[mob_id] =
                              [mob EXCEPT !.off_farm = FALSE,
                                          !.off_farm_details = None,
                                          !.location = to_location,
                                          !.location_name =
                                              paddocks[to_location].name,
                                          !.modified = now]]
                 data2 == log_movement(data1, mob_id, mob.name, s_return,
                                       from_location, to_location,
                                       mob.head_count,
                                       IF a_note # <<>> THEN Strip(a_note)
                                       ELSE s_Returned_to_farm)
             IN  /\ save_mobs(data2)
                 /\ UNCHANGED str_config
                 /\ Ok("returned:{}", <<to_location>>)
    /\ StrFrame

cmd_toggle_attribute(a_id, a_attribute) ==
    /\ backend = "str"
    /\ LET config == str_load_config
           data == load_mobs
           mobs == data.mobs
           mob_id == Strip(a_id)
           attr_id == Strip(a_attribute)
           valid_attrs ==
               [i \in 1..Len(config.attributes) |-> config.attributes[i].id]
       IN  IF mob_id \notin DOMAIN mobs
           THEN Fail("Mob '{}' not found", <<mob_id>>) /\ UNCHANGED strFiles
           ELSE IF ~InList(attr_id, valid_attrs)
           THEN Fail("Invalid attribute '{}'", <<attr_id>>)
                /\ UNCHANGED strFiles
           ELSE
             LET mob == mobs[mob_id]
                 has == InList(attr_id, mob.attributes)
                 \* list.remove drops the first occurrence
                 first == CHOOSE i \in 1..Len(mob.attributes) :
                             /\ mob.attributes[i] = attr_id
                             /\ \A j \in 1..(i - 1) : mob.attributes[j] # attr_id
                 attributes ==
                     IF has
                     THEN SubSeq(mob.attributes, 1, first - 1)
                          \o SubSeq(mob.attributes, first + 1,
                                    Len(mob.attributes))
                     ELSE Append(mob.attributes, attr_id)
             IN  /\ save_mobs([data EXCEPT !.mobs[mob_id] =
                        [mob EXCEPT !.attributes = attributes,
                                    !.modified = now]])
                 /\ UNCHANGED str_config
                 /\ IF has THEN Ok("removed:{}", <<attr_id>>)
                    ELSE Ok("added:{}", <<attr_id>>)
    /\ StrFrame

cmd_add_off_farm_location(a_name) ==
    /\ backend = "str"
    /\ LET config == str_load_config
           name == Strip(a_name)
           locations == config.off_farm_locations
       IN  IF name = <<>>
           THEN Fail("Off-farm location name is required", <<>>)
                /\ UNCHANGED strFiles
           ELSE IF InList(name, locations)
           THEN Fail("Off-farm location '{}' already exists", <<name>>)
                /\ UNCHANGED strFiles
           ELSE /\ str_save_config(
                      [config EXCEPT !.off_farm_locations = Append(@, name)])
                /\ UNCHANGED str_mobs
                /\ Ok("{}", <<name>>)
    /\ StrFrame

\* the mobs whose off_farm_details give the location as reason
mobs_at_off_farm_location(mobs, name) ==
    {m \in DOMAIN mobs :
        /\ mobs[m].off_farm_details # None
        /\ mobs[m].off_farm_details[1].reason = name}

cmd_remove_off_farm_location(a_name) ==
    /\ backend = "str"
    /\ LET config == str_load_config
           name == Strip(a_name)
           locations == config.off_farm_locations
           mobs == load_mobs.mobs
       IN  IF name = <<>>
           THEN Fail("Off-farm location name is required", <<>>)
                /\ UNCHANGED strFiles
           ELSE IF ~InList(name, locations)
           THEN Fail("Off-farm location '{}' not found", <<name>>)
                /\ UNCHANGED strFiles
           ELSE IF mobs_at_off_farm_location(mobs, name) # {}
           THEN Fail("Off-farm location '{}' is in use", <<name>>)
                /\ UNCHANGED strFiles
           ELSE /\ str_save_config(
                      [config EXCEPT !.off_farm_locations = Without(@, name)])
                /\ UNCHANGED str_mobs
                /\ Ok("removed:{}", <<name>>)
    /\ StrFrame

----------------------------------------------------------------------------
(* STR - config commands (str_backend.py)                                   *)

\* the mobs that carry the attribute
mobs_with_attribute(mobs, attr_id) ==
    {m \in DOMAIN mobs : InList(attr_id, mobs[m].attributes)}

cmd_remove_attribute_type(a_id) ==
    /\ backend = "str"
    /\ LET config == str_load_config
           attr_id == Strip(a_id)
           attributes == config.attributes
           matching == SelectSeq(attributes, LAMBDA a : a.id = attr_id)
           mobs == load_mobs.mobs
       IN  IF attr_id = <<>>
           THEN Fail("Attribute ID is required", <<>>)
                /\ UNCHANGED strFiles
           ELSE IF matching = <<>>
           THEN Fail("Attribute '{}' not found", <<attr_id>>)
                /\ UNCHANGED strFiles
           ELSE IF mobs_with_attribute(mobs, attr_id) # {}
           THEN Fail("Attribute '{}' is in use", <<attr_id>>)
                /\ UNCHANGED strFiles
           ELSE /\ str_save_config([config EXCEPT !.attributes =
                       SelectSeq(attributes, LAMBDA a : a.id # attr_id)])
                /\ UNCHANGED str_mobs
                /\ Ok("removed:{}", <<attr_id>>)
    /\ StrFrame

cmd_add_age_class(a_name) ==
    /\ backend = "str"
    /\ LET config == str_load_config
           name == Strip(a_name)
           age_classes == config.age_classes
       IN  IF name = <<>>
           THEN Fail("Age class name is required", <<>>)
                /\ UNCHANGED strFiles
           ELSE IF InList(name, age_classes)
           THEN Fail("Age class '{}' already exists", <<name>>)
                /\ UNCHANGED strFiles
           ELSE /\ str_save_config(
                      [config EXCEPT !.age_classes = Append(@, name)])
                /\ UNCHANGED str_mobs
                /\ Ok("{}", <<name>>)
    /\ StrFrame

\* the mobs of the age class
mobs_of_age_class(mobs, name) ==
    {m \in DOMAIN mobs : mobs[m].age_class = name}

cmd_remove_age_class(a_name) ==
    /\ backend = "str"
    /\ LET config == str_load_config
           name == Strip(a_name)
           age_classes == config.age_classes
           mobs == load_mobs.mobs
       IN  IF name = <<>>
           THEN Fail("Age class name is required", <<>>)
                /\ UNCHANGED strFiles
           ELSE IF ~InList(name, age_classes)
           THEN Fail("Age class '{}' not found", <<name>>)
                /\ UNCHANGED strFiles
           ELSE IF mobs_of_age_class(mobs, name) # {}
           THEN Fail("Age class '{}' is in use", <<name>>)
                /\ UNCHANGED strFiles
           ELSE /\ str_save_config(
                      [config EXCEPT !.age_classes = Without(@, name)])
                /\ UNCHANGED str_mobs
                /\ Ok("removed:{}", <<name>>)
    /\ StrFrame

----------------------------------------------------------------------------
(* ASM - asset service manager (asm_backend.py)                            *)
(* Quantities are whole numbers here; the code holds them as floats.       *)
(* The free-form attributes, applicable_assets, universal, part_number,    *)
(* notes and engine_hours fields are copied from the command line without  *)
(* any check and are left out of the records.                              *)

\* leading entries of the default lists; the module globals ASSET_CATEGORIES,
\* PART_CATEGORIES, SERVICE_TYPES and PART_UNITS are copies of them
ASSET_CATEGORIES == <<s_Tractor, s_Pump>>
PART_CATEGORIES == <<s_Filter, s_Belt>>
SERVICE_TYPES == <<s_Repair, s_Other>>
PART_UNITS == <<s_ea, s_L>>

IsAlnumUpper(c) == c \in DOMAIN ToLower \/ c \in Digits

\* re.sub(r"[^A-Z0-9]+", "_", s): every run of other characters becomes "_"
RECURSIVE sub_non_alnum(_)
sub_non_alnum(s) ==
    IF s = <<>> THEN <<>>
    ELSE IF IsAlnumUpper(Head(s)) THEN <<Head(s)>> \o sub_non_alnum(Tail(s))
    ELSE LET rest == sub_non_alnum(Tail(s))
         IN  IF rest # <<>> /\ Head(rest) = "_" THEN rest ELSE <<"_">> \o rest

\* str.strip("_")
RECURSIVE strip_underscores(_)
strip_underscores(s) ==
    IF s # <<>> /\ Head(s) = "_" THEN strip_underscores(Tail(s))
    ELSE IF s # <<>> /\ s[Len(s)] = "_"
    THEN strip_underscores(SubSeq(s, 1, Len(s) - 1))
    ELSE s

\* s[:n]
Prefix(s, n) == SubSeq(s, 1, IF Len(s) < n THEN Len(s) ELSE n)

asm_generate_id(name) ==
    LET clean == strip_underscores(sub_non_alnum(Upper(name)))
    IN  IF clean # <<>> THEN Prefix(clean, 30) ELSE s_UNKNOWN

asm_load_data ==
    IF asm_data = <<>>
    THEN [assets |-> EmptyMap, parts |-> EmptyMap,
          service_events |-> <<>>, transactions |-> <<>>]
    ELSE asm_data[1]

asm_save_data(data) == asm_data' = <<data>>

asm_log_transaction(data, action, entity_type, entity_id, entity_name, details) ==
    [data EXCEPT !.transactions = Append(@,
        [timestamp |-> now,
         action |-> action,
         entity_type |-> entity_type,
         entity_id |-> entity_id,
         entity_name |-> entity_name,
         details |-> details])]

\* str() of a float holding a whole number, and its "+.1f" format
FloatStr(n) ==
    (IF n < 0 THEN <<"-">> ELSE <<>>) \o IntStr(Abs(n)) \o <<".", "0">>
SignedFloatStr(n) == (IF n < 0 THEN <<>> ELSE <<"+">>) \o FloatStr(n)

\* a create that never finds its id in use
id_never_taken(id, collection) == FALSE

\* the duplicate check of the add commands: the derived id is a key of the
\* collection
id_taken(id, collection) == id \in DOMAIN collection

\* what every asm command leaves alone
AsmFrame ==
    UNCHANGED <<backend, damage, now, strFiles, ipmFiles, wssFiles, weatherFiles,
                listFiles, backups>>

cmd_add_asset(a_name, a_category) ==
    /\ backend = "asm"
    /\ LET data == asm_load_data
           assets == data.assets
           asset_id == asm_generate_id(a_name)
           category == IF a_category # <<>> THEN Strip(a_category)
                       ELSE s_Tractor
       IN  IF id_taken(asset_id, assets)
           THEN Fail("Asset '{}' already exists", <<asset_id>>)
                /\ UNCHANGED asm_data
           ELSE IF ~InList(category, ASSET_CATEGORIES)
           THEN Fail("Invalid category '{}'", <<category>>)
                /\ UNCHANGED asm_data
           ELSE
             LET asset == [id |-> asset_id,
                           name |-> Strip(a_name),
                           category |-> category,
                           created |-> now,
                           modified |-> NoStamp]
                 data1 == [data EXCEPT !.assets = Put(assets, asset_id, asset)]
             IN  /\ asm_save_data(asm_log_transaction(data1, s_add_asset,
                        s_asset, asset_id, asset.name, <<>>))
                 /\ Ok("{}", <<asset_id>>)
    /\ AsmFrame

cmd_edit_asset(a_id, a_name, a_category) ==
    /\ backend = "asm"
    /\ LET data == asm_load_data
           assets == data.assets
           asset_id == Upper(Strip(a_id))
       IN  IF asset_id \notin DOMAIN assets
           THEN Fail("Asset '{}' not found", <<asset_id>>)
                /\ UNCHANGED asm_data
           ELSE IF /\ a_category # None /\ a_category[1] # <<>>
                   /\ ~InList(Strip(a_category[1]), ASSET_CATEGORIES)
           THEN Fail("Invalid category '{}'", <<Strip(a_category[1])>>)
                /\ UNCHANGED asm_data
           ELSE
             LET asset0 == assets[asset_id]
                 asset1 == IF a_name # None /\ a_name[1] # <<>>
                           THEN [asset0 EXCEPT !.name = Strip(a_name[1])]
                           ELSE asset0
                 asset2 == IF a_category # None /\ a_category[1] # <<>>
                           THEN [asset1 EXCEPT
                                    !.category = Strip(a_category[1])]
                           ELSE asset1
                 asset3 == [asset2 EXCEPT !.modified = now]
                 data1 == [data EXCEPT !.assets[asset_id] = asset3]
             IN  /\ asm_save_data(asm_log_transaction(data1, s_edit_asset,
                        s_asset, asset_id, asset3.name, <<>>))
                 /\ Ok("{}", <<asset_id>>)
    /\ AsmFrame

cmd_delete_asset(a_id) ==
    /\ backend = "asm"
    /\ LET data == asm_load_data
           assets == data.assets
           asset_id == Upper(Strip(a_id))
       IN  IF asset_id \notin DOMAIN assets
           THEN Fail("Asset '{}' not found", <<asset_id>>)
                /\ UNCHANGED asm_data
           ELSE
             LET data1 == [data EXCEPT !.assets = Del(assets, asset_id)]
             IN  /\ asm_save_data(asm_log_transaction(data1, s_delete_asset,
                        s_asset, asset_id, assets[asset_id].name, <<>>))
                 /\ Ok("deleted", <<>>)
    /\ AsmFrame

\* unit = args.unit.strip() if args.unit else "ea";
\* if unit not in PART_UNITS: unit = "ea"
add_part_unit(a_unit) ==
    LET unit == IF a_unit # <<>> THEN Strip(a_unit) ELSE s_ea
    IN  IF InList(unit, PART_UNITS) THEN unit ELSE s_ea

cmd_add_part(a_name, a_category, a_unit, a_stock, a_min_stock) ==
    /\ backend = "asm"
    /\ LET data == asm_load_data
           parts == data.parts
           part_id == asm_generate_id(a_name)
           category == IF a_category # <<>> THEN Strip(a_category)
                       ELSE s_Filter
           unit == add_part_unit(a_unit)
       IN  IF id_taken(part_id, parts)
           THEN Fail("Part '{}' already exists", <<part_id>>)
                /\ UNCHANGED asm_data
           ELSE IF ~InList(category, PART_CATEGORIES)
           THEN Fail("Invalid category '{}'", <<category>>)
                /\ UNCHANGED asm_data
           ELSE
             LET part == [id |-> part_id,
                          name |-> Strip(a_name),
                          category |-> category,
                          stock |-> a_stock,
                          min_stock |-> a_min_stock,
                          unit |-> unit,
                          created |-> now,
                          modified |-> NoStamp]
                 data1 == [data EXCEPT !.parts = Put(parts, part_id, part)]
                 details == s_Initial_stock
                            \o (IF a_stock = 0 THEN IntStr(0)
                                ELSE FloatStr(a_stock))
                            \o <<" ">> \o unit
             IN  /\ asm_save_data(asm_log_transaction(data1, s_add_part,
                        s_part, part_id, part.name, details))
                 /\ Ok("{}", <<part_id>>)
    /\ AsmFrame

cmd_edit_part(a_id, a_name, a_category, a_unit, a_min_stock) ==
    /\ backend = "asm"
    /\ LET data == asm_load_data
           parts == data.parts
           part_id == Upper(Strip(a_id))
       IN  IF part_id \notin DOMAIN parts
           THEN Fail("Part '{}' not found", <<part_id>>)
                /\ UNCHANGED asm_data
           ELSE IF /\ a_category # None /\ a_category[1] # <<>>
                   /\ ~InList(Strip(a_category[1]), PART_CATEGORIES)
           THEN Fail("Invalid category '{}'", <<Strip(a_category[1])>>)
                /\ UNCHANGED asm_data
           ELSE
             LET part0 == parts[part_id]
                 part1 == IF a_name # None /\ a_name[1] # <<>>
                          THEN [part0 EXCEPT !.name = Strip(a_name[1])]
                          ELSE part0
                 part2 == IF a_category # None /\ a_category[1] # <<>>
                          THEN [part1 EXCEPT !.category = Strip(a_category[1])]
                          ELSE part1
                 part3 == IF /\ a_unit # None /\ a_unit[1] # <<>>
                             /\ InList(Strip(a_unit[1]), PART_UNITS)
                          THEN [part2 EXCEPT !.unit = Strip(a_unit[1])]
                          ELSE part2
                 part4 == IF a_min_stock # None
                          THEN [part3 EXCEPT !.min_stock = a_min_stock[1]]
                          ELSE part3
                 part5 == [part4 EXCEPT !.modified = now]
                 data1 == [data EXCEPT !.parts[part_id] = part5]
             IN  /\ asm_save_data(asm_log_transaction(data1, s_edit_part,
                        s_part, part_id, part5.name, <<>>))
                 /\ Ok("{}", <<part_id>>)
    /\ AsmFrame

cmd_delete_part(a_id) ==
    /\ backend = "asm"
    /\ LET data == asm_load_data
           parts == data.parts
           part_id == Upper(Strip(a_id))
       IN  IF part_id \notin DOMAIN parts
           THEN Fail("Part '{}' not found", <<part_id>>)
                /\ UNCHANGED asm_data
           ELSE
             LET data1 == [data EXCEPT !.parts = Del(parts, part_id)]
             IN  /\ asm_save_data(asm_log_transaction(data1, s_delete_part,
                        s_part, part_id, parts[part_id].name, <<>>))
                 /\ Ok("deleted", <<>>)
    /\ AsmFrame

\* new_stock = max(0, current + delta)
asm_new_stock(current, delta) == Max(0, current + delta)

\* a zero test that never answers yes
zero_delta_applied(delta) == FALSE

\* if delta == 0
is_zero_delta(delta) == delta = 0

cmd_adjust_stock(a_id, a_delta) ==
    /\ backend = "asm"
    /\ LET data == asm_load_data
           parts == data.parts
           part_id == Upper(Strip(a_id))
       IN  IF part_id \notin DOMAIN parts
           THEN Fail("Part '{}' not found", <<part_id>>)
                /\ UNCHANGED asm_data
           ELSE IF is_zero_delta(a_delta)
           THEN Ok("{n}", <<0>>) /\ UNCHANGED asm_data
           ELSE
             LET part == parts[part_id]
                 current == part.stock
                 new_stock == asm_new_stock(current, a_delta)
                 data1 == [data EXCEPT !.parts[part_id].stock = new_stock]
                 details == s_Changed_by \o SignedFloatStr(a_delta)
                            \o s_was \o FloatStr(current)
                            \o s_now \o FloatStr(new_stock) \o <<")">>
             IN  /\ asm_save_data(asm_log_transaction(data1, s_stock_adjust,
                        s_part, part_id, part.name, details))
                 /\ Ok("{n}", <<new_stock>>)
    /\ AsmFrame

\* strftime('%Y%m%d') of the clock, which starts at midnight of a day
strftime_Ymd(t) == IntStr(20260101 + (t \div 86400))

\* f"{n:03d}"
Pad3(n) ==
    (IF n < 10 THEN <<"0", "0">> ELSE IF n < 100 THEN <<"0">> ELSE <<>>)
    \o IntStr(n)

\* f"SE_{timestamp.strftime('%Y%m%d')}_{len(service_events) + 1:03d}"
service_event_id(service_events) ==
    s_SE_ \o strftime_Ymd(now) \o <<"_">> \o Pad3(Len(service_events) + 1)

\* the items of --parts that name an existing part with a quantity > 0
parts_consumed_of(a_parts, parts) ==
    SelectSeq([i \in 1..Len(a_parts) |->
                  [part_id |-> Upper(Strip(a_parts[i].part_id)),
                   quantity |-> a_parts[i].quantity]],
              LAMBDA pc : /\ pc.part_id # <<>>
                          /\ pc.part_id \in DOMAIN parts
                          /\ pc.quantity > 0)

\* a deduction that lets the stock go below zero
RECURSIVE deduct_parts_unclamped(_, _)
deduct_parts_unclamped(parts, pcs) ==
    IF pcs = <<>> THEN parts
    ELSE LET pc == Head(pcs)
         IN  deduct_parts_unclamped(
                 [parts EXCEPT ![pc.part_id].stock =
                     parts[pc.part_id].stock - pc.quantity],
                 Tail(pcs))

\* the auto-deduct loop of cmd_record_service
RECURSIVE deduct_parts(_, _)
deduct_parts(parts, pcs) ==
    IF pcs = <<>> THEN parts
    ELSE LET pc == Head(pcs)
         IN  deduct_parts(
                 [parts EXCEPT ![pc.part_id].stock =
                     Max(0, parts[pc.part_id].stock - pc.quantity)],
                 Tail(pcs))

\* ', '.join(f"{part['name']} x{quantity}" for the deducted parts)
RECURSIVE deducted_text(_, _)
deducted_text(parts, pcs) ==
    IF pcs = <<>> THEN <<>>
    ELSE parts[Head(pcs).part_id].name \o s_sp_x
         \o FloatStr(Head(pcs).quantity)
         \o (IF Tail(pcs) = <<>> THEN <<>>
             ELSE <<",", " ">> \o deducted_text(parts, Tail(pcs)))

cmd_record_service(a_asset, a_type, a_parts) ==
    /\ backend = "asm"
    /\ LET data == asm_load_data
           assets == data.assets
           parts == data.parts
           asset_id == Upper(Strip(a_asset))
           type0 == IF a_type # <<>> THEN Strip(a_type) ELSE s_Other
           service_type == IF InList(type0, SERVICE_TYPES) THEN type0
                           ELSE s_Other
       IN  IF asset_id \notin DOMAIN assets
           THEN Fail("Asset '{}' not found", <<asset_id>>)
                /\ UNCHANGED asm_data
           ELSE
             LET parts_consumed == parts_consumed_of(a_parts, parts)
                 event_id == service_event_id(data.service_events)
                 event == [id |-> event_id,
                           timestamp |-> now,
                           asset_id |-> asset_id,
                           asset_name |-> assets[asset_id].name,
                           service_type |-> service_type,
                           parts_consumed |-> parts_consumed]
                 data1 == [data EXCEPT
                              !.parts = deduct_parts(parts, parts_consumed),
                              !.service_events = Append(@, event)]
                 details == s_Parts \o
                     (IF parts_consumed # <<>>
                      THEN deducted_text(parts, parts_consumed)
                      ELSE <<"N", "o", "n", "e">>)
             IN  /\ asm_save_data(asm_log_transaction(data1,
                        s_record_service, s_service, event_id,
                        service_type \o s_sp_on_sp \o event.asset_name,
                        details))
                 /\ Ok("{}", <<event_id>>)
    /\ AsmFrame

cmd_delete_service(a_id) ==
    /\ backend = "asm"
    /\ LET data == asm_load_data
           service_events == data.service_events
           event_id == Strip(a_id)
           hits == {i \in 1..Len(service_events) :
                       service_events[i].id = event_id}
       IN  IF event_id = <<>>
           THEN Fail("Event ID is required", <<>>) /\ UNCHANGED asm_data
           ELSE IF hits = {}
           THEN Fail("Service event '{}' not found", <<event_id>>)
                /\ UNCHANGED asm_data
           ELSE
             LET found_idx == CHOOSE i \in hits : \A j \in hits : i <= j
                 event == service_events[found_idx]
                 data1 == [data EXCEPT !.service_events =
                              SubSeq(@, 1, found_idx - 1)
                              \o SubSeq(@, found_idx + 1, Len(@))]
             IN  /\ asm_save_data(asm_log_transaction(data1,
                        s_delete_service, s_service, event_id,
                        event.service_type \o s_sp_on_sp \o event.asset_name,
                        <<>>))
                 /\ Ok("deleted", <<>>)
    /\ AsmFrame

----------------------------------------------------------------------------
(* IPM - inventory product manager (ipm_backend.py)                        *)
(* Quantities are whole numbers here; the code holds them as floats.  The  *)
(* container_size, application_unit and active_constituents fields are     *)
(* copied from the command line and are left out of the records.           *)

\* leading entries of the default tables
DEFAULT_LOCATIONS == <<s_Chem_Shed, s_Seed_Shed>>
CATEGORY_SUBCATEGORIES ==
    (s_Chemical :> <<s_Herbicide>>) @@ (s_Fertiliser :> <<s_Nitrogen>>)
    @@ (s_Seed :> <<s_Wheat>>) @@ (s_Lubricant :> <<s_Grease>>)

ipm_generate_id(name) ==
    LET clean == strip_underscores(sub_non_alnum(Upper(name)))
    IN  IF clean # <<>> THEN Prefix(clean, 20) ELSE s_UNKNOWN

IsAlpha(c) == c \in DOMAIN ToLower \/ c \in DOMAIN ToUpper

\* str.title(): a letter that follows a letter is lowered, any other letter
\* is raised
RECURSIVE TitleFrom(_, _)
TitleFrom(s, afterLetter) ==
    IF s = <<>> THEN <<>>
    ELSE <<IF afterLetter THEN LowerChar(Head(s)) ELSE UpperChar(Head(s))>>
         \o TitleFrom(Tail(s), IsAlpha(Head(s)))
Title(s) == TitleFrom(s, FALSE)

normalize_category(raw) ==
    LET lookup == (s_chemical :> s_Chemical) @@ (s_chemicals :> s_Chemical)
                  @@ (s_fertiliser :> s_Fertiliser)
                  @@ (s_fertilizer :> s_Fertiliser)
                  @@ (s_seed :> s_Seed) @@ (s_seeds :> s_Seed)
                  @@ (s_lubricant :> s_Lubricant)
                  @@ (s_lubricants :> s_Lubricant) @@ (s_oil :> s_Lubricant)
        key == Lower(Strip(raw))
    IN  IF key \in DOMAIN lookup THEN lookup[key] ELSE Title(Strip(raw))

load_inventory ==
    IF ipm_inventory = <<>>
    THEN [products |-> EmptyMap, transactions |-> <<>>]
    ELSE ipm_inventory[1]

save_inventory(data) == ipm_inventory' = <<data>>

\* created and modified are NoStamp where the code has no such key
ipm_load_config ==
    IF ipm_config = <<>>
    THEN [locations |-> DEFAULT_LOCATIONS, custom_actives |-> <<>>,
          created |-> NoStamp, modified |-> NoStamp]
    ELSE ipm_config[1]

ipm_save_config(config) ==
    ipm_config' = <<[config EXCEPT !.modified = now]>>

get_locations == ipm_load_config.locations

ipm_log_transaction(data, action, product_id, product_name, location, delta, note) ==
    [data EXCEPT !.transactions = Append(@,
        [timestamp |-> now,
         action |-> action,
         product_id |-> product_id,
         product_name |-> product_name,
         location |-> location,
         delta |-> delta,
         note |-> note])]

\* what every ipm command leaves alone
IpmFrame ==
    UNCHANGED <<backend, damage, now, ipm_config, strFiles, asmFiles, wssFiles,
                weatherFiles, listFiles, backups>>

cmd_add_product(a_name, a_category, a_subcategory, a_unit, a_min_stock, a_location, a_initial_stock) ==
    /\ backend = "ipm"
    /\ LET data == load_inventory
           products == data.products
           product_id == ipm_generate_id(a_name)
           category == normalize_category(a_category)
           subcategory == IF a_subcategory # <<>> THEN Strip(a_subcategory)
                          ELSE <<>>
       IN  IF id_taken(product_id, products)
           THEN Fail("Product '{}' already exists", <<product_id>>)
                /\ UNCHANGED ipm_inventory
           ELSE IF category \notin DOMAIN CATEGORY_SUBCATEGORIES
           THEN Fail("Invalid category '{}'", <<category>>)
                /\ UNCHANGED ipm_inventory
           ELSE IF /\ subcategory # <<>>
                   /\ ~InList(subcategory, CATEGORY_SUBCATEGORIES[category])
           THEN Fail("Subcategory '{}' not valid for {}",
                     <<subcategory, category>>)
                /\ UNCHANGED ipm_inventory
           ELSE
             LET stocked == a_initial_stock > 0 /\ a_location # <<>>
                 location == Strip(a_location)
                 product == [id |-> product_id,
                             name |-> Strip(a_name),
                             category |-> category,
                             subcategory |-> subcategory,
                             unit |-> IF a_unit # <<>> THEN Strip(a_unit)
                                      ELSE <<"L">>,
                             min_stock |-> a_min_stock,
                             stock_by_location |->
                                 IF stocked
                                 THEN Put(EmptyMap, location, a_initial_stock)
                                 ELSE EmptyMap,
                             created |-> now,
                             modified |-> NoStamp]
                 data1 == IF stocked
                          THEN ipm_log_transaction(data, s_initial_stock,
                                   product_id, product.name, location,
                                   a_initial_stock, s_Initial_stock_note)
                          ELSE data
             IN  /\ save_inventory(
                        [data1 EXCEPT !.products =
                            Put(products, product_id, product)])
                 /\ Ok("{}", <<product_id>>)
    /\ IpmFrame

cmd_edit_product(a_id, a_name, a_category, a_subcategory, a_unit, a_min_stock) ==
    /\ backend = "ipm"
    /\ LET data == load_inventory
           products == data.products
           product_id == Upper(Strip(a_id))
           given(a) == a # None /\ a[1] # <<>>
       IN  IF product_id \notin DOMAIN products
           THEN Fail("Product '{}' not found", <<product_id>>)
                /\ UNCHANGED ipm_inventory
           ELSE IF /\ given(a_category)
                   /\ normalize_category(a_category[1])
                          \notin DOMAIN CATEGORY_SUBCATEGORIES
           THEN Fail("Invalid category '{}'",
                     <<normalize_category(a_category[1])>>)
                /\ UNCHANGED ipm_inventory
           ELSE
             LET p0 == products[product_id]
                 p1 == IF given(a_name)
                       THEN [p0 EXCEPT !.name = Strip(a_name[1])] ELSE p0
                 p2 == IF given(a_category)
                       THEN [p1 EXCEPT !.category =
                                normalize_category(a_category[1])]
                       ELSE p1
                 subcategory == Strip(a_subcategory[1])
                 valid_subs ==
                     IF p2.category \in DOMAIN CATEGORY_SUBCATEGORIES
                     THEN CATEGORY_SUBCATEGORIES[p2.category] ELSE <<>>
             IN  IF /\ a_subcategory # None
                    /\ subcategory # <<>>
                    /\ ~InList(subcategory, valid_subs)
                 THEN Fail("Subcategory '{}' not valid for {}",
                           <<subcategory, p2.category>>)
                      /\ UNCHANGED ipm_inventory
                 ELSE
                   LET p3 == IF a_subcategory # None
                             THEN [p2 EXCEPT !.subcategory = subcategory]
                             ELSE p2
                       p4 == IF given(a_unit)
                             THEN [p3 EXCEPT !.unit = Strip(a_unit[1])]
                             ELSE p3
                       p5 == IF a_min_stock # None
                             THEN [p4 EXCEPT !.min_stock = a_min_stock[1]]
                             ELSE p4
                       p6 == [p5 EXCEPT !.modified = now]
                       data1 == [data EXCEPT !.products[product_id] = p6]
                   IN  /\ save_inventory(ipm_log_transaction(data1,
                              s_edit_product, product_id, p6.name, <<>>, 0,
                              s_Product_details_updated))
                       /\ Ok("{}", <<product_id>>)
    /\ IpmFrame

\* new_stock = max(0, current + delta)
ipm_new_stock(current, delta) == Max(0, current + delta)

\* an update that keeps the location's key whatever the quantity
stock_kept_at(stock_by_location, location, new_stock) ==
    Put(stock_by_location, location, new_stock)

\* the "update or remove location" branch of cmd_move_stock
stock_updated_at(stock_by_location, location, new_stock) ==
    IF new_stock > 0
    THEN Put(stock_by_location, location, new_stock)
    ELSE Del(stock_by_location, location)

cmd_move_stock(a_id, a_location, a_delta) ==
    /\ backend = "ipm"
    /\ LET data == load_inventory
           products == data.products
           product_id == Upper(Strip(a_id))
           location == Strip(a_location)
       IN  IF product_id \notin DOMAIN products
           THEN Fail("Product '{}' not found", <<product_id>>)
                /\ UNCHANGED ipm_inventory
           ELSE IF a_delta = 0
           THEN Ok("{n}", <<0>>) /\ UNCHANGED ipm_inventory
           ELSE
             LET product == products[product_id]
                 stock_by_location == product.stock_by_location
                 current == IF location \in DOMAIN stock_by_location
                            THEN stock_by_location[location] ELSE 0
                 new_stock == ipm_new_stock(current, a_delta)
                 stock1 == stock_updated_at(stock_by_location, location,
                                            new_stock)
                 data1 == [data EXCEPT
                     !.products[product_id].stock_by_location = stock1]
             IN  /\ save_inventory(ipm_log_transaction(data1,
                        IF a_delta > 0 THEN s_stock_in ELSE s_stock_out,
                        product_id, product.name, location, a_delta, <<>>))
                 /\ Ok("{n}", <<new_stock>>)
    /\ IpmFrame

cmd_delete_product(a_id) ==
    /\ backend = "ipm"
    /\ LET data == load_inventory
           products == data.products
           product_id == Upper(Strip(a_id))
       IN  IF product_id \notin DOMAIN products
           THEN Fail("Product '{}' not found", <<product_id>>)
                /\ UNCHANGED ipm_inventory
           ELSE
             LET data1 == [data EXCEPT !.products = Del(products, product_id)]
             IN  /\ save_inventory(ipm_log_transaction(data1,
                        s_delete_product, product_id,
                        products[product_id].name, <<>>, 0,
                        s_Product_deleted))
                 /\ Ok("deleted", <<>>)
    /\ IpmFrame

----------------------------------------------------------------------------
(* IPM - data management and config commands (ipm_backend.py)              *)
(* A file of the backups directory is a record: json tells whether it      *)
(* parses, type is its "type" marker, data and config are the document and *)
(* the config it carries (None where the key is missing or no object).     *)

\* strftime("%Y-%m-%d_%H%M%S") of the clock, within the first minute of the
\* day the clock starts on
strftime_YmdHMS(t) ==
    s_stamp_day \o (IF t < 10 THEN <<"0">> ELSE <<>>) \o IntStr(t)

\* a backup structure that leaves the document out
backup_structure_without_data(type, note, data, config) ==
    [json |-> TRUE,
     type |-> type,
     note |-> note,
     created |-> now,
     data |-> None,
     config |-> Some(config)]

\* the backup structure the data commands write
backup_structure(type, note, data, config) ==
    [json |-> TRUE,
     type |-> type,
     note |-> note,
     created |-> now,
     data |-> Some(data),
     config |-> Some(config)]

\* what the ipm data and config commands leave alone
IpmDataFrame ==
    UNCHANGED <<backend, damage, now, strFiles, asmFiles, wssFiles, weatherFiles,
                listFiles>>

ipm_cmd_export ==
    /\ backend = "ipm"
    /\ LET backup_file == s_inventory_ \o strftime_YmdHMS(now) \o s_dot_json
       IN  /\ backups' = Put(backups, backup_file,
                   backup_structure("ipm_backup", "", load_inventory,
                                    ipm_load_config))
           /\ Ok("{}", <<backup_file>>)
    /\ UNCHANGED ipmFiles
    /\ IpmDataFrame

\* a marker check that takes any file
any_backup_type(backup_data) == TRUE

\* backup_data.get("type") == "ipm_backup"
is_ipm_backup(backup_data) == backup_data.type = "ipm_backup"

ipm_cmd_import(a_filename) ==
    /\ backend = "ipm"
    /\ LET filename == Strip(a_filename)
           pre_import_file ==
               s_pre_import_ \o strftime_YmdHMS(now) \o s_dot_json
       IN  IF filename = <<>>
           THEN Fail("Filename cannot be empty", <<>>)
                /\ UNCHANGED <<ipmFiles, backups>>
           ELSE IF filename \notin DOMAIN backups
           THEN Fail("Backup file '{}' not found", <<filename>>)
                /\ UNCHANGED <<ipmFiles, backups>>
           ELSE IF ~backups[filename].json
           THEN Fail("Invalid JSON in backup file: {}", <<>>)
                /\ UNCHANGED <<ipmFiles, backups>>
           ELSE IF ~is_ipm_backup(backups[filename])
           THEN Fail("File is not a valid IPM backup", <<>>)
                /\ UNCHANGED <<ipmFiles, backups>>
           ELSE IF backups[filename].data = None
           THEN Fail("Backup contains invalid inventory data", <<>>)
                /\ UNCHANGED <<ipmFiles, backups>>
           ELSE
             LET inventory == backups[filename].data[1]
                 config == backups[filename].config
             IN  /\ backups' = Put(backups, pre_import_file,
                         backup_structure("ipm_backup",
                             "Pre-import automatic backup",
                             load_inventory, ipm_load_config))
                 /\ save_inventory(inventory)
                 /\ IF config # None
                    THEN ipm_save_config(config[1])
                    ELSE UNCHANGED ipm_config
                 /\ Ok("imported:{n}:{}",
                       <<Cardinality(DOMAIN inventory.products),
                         pre_import_file>>)
    /\ IpmDataFrame

ipm_cmd_reset(a_token) ==
    /\ backend = "ipm"
    /\ LET current_inventory == load_inventory
           current_config == ipm_load_config
           pre_reset_file ==
               s_pre_reset_ \o strftime_YmdHMS(now) \o s_dot_json
       IN  IF Strip(a_token) # s_CONFIRM_RESET
           THEN Fail("Invalid confirmation token. Use --token CONFIRM_RESET",
                     <<>>)
                /\ UNCHANGED <<ipmFiles, backups>>
           ELSE /\ IF \/ DOMAIN current_inventory.products # {}
                      \/ current_config.custom_actives # <<>>
                   THEN backups' = Put(backups, pre_reset_file,
                            backup_structure("ipm_backup",
                                "Pre-reset automatic backup",
                                current_inventory, current_config))
                   ELSE UNCHANGED backups
                /\ save_inventory([products |-> EmptyMap,
                                   transactions |-> <<>>])
                /\ ipm_save_config([locations |-> DEFAULT_LOCATIONS,
                                    custom_actives |-> <<>>,
                                    created |-> now,
                                    modified |-> NoStamp])
                /\ Ok("reset", <<>>)
    /\ IpmDataFrame

\* any(loc.lower() == location.lower() for loc in locations)
matching_locations(locations, location) ==
    SelectSeq(locations, LAMBDA loc : Lower(loc) = Lower(location))

cmd_add_location(a_name) ==
    /\ backend = "ipm"
    /\ LET location == Strip(a_name)
           config == ipm_load_config
           locations == config.locations
       IN  IF location = <<>>
           THEN Fail("Location name cannot be empty", <<>>)
                /\ UNCHANGED ipm_config
           ELSE IF matching_locations(locations, location) # <<>>
           THEN Fail("Location '{}' already exists", <<location>>)
                /\ UNCHANGED ipm_config
           ELSE /\ ipm_save_config([config EXCEPT
                       !.locations = Append(locations, location)])
                /\ Ok("{}", <<location>>)
    /\ UNCHANGED <<ipm_inventory, backups>>
    /\ IpmDataFrame

\* a location check that finds no product
no_products_with_stock(products, location) == {}

\* the products that hold stock at the location
products_with_stock(products, location) ==
    {id \in DOMAIN products :
        /\ location \in DOMAIN products[id].stock_by_location
        /\ products[id].stock_by_location[location] > 0}

cmd_remove_location(a_name) ==
    /\ backend = "ipm"
    /\ LET location == Strip(a_name)
           config == ipm_load_config
           locations == config.locations
           matching == matching_locations(locations, location)
           products == load_inventory.products
       IN  IF location = <<>>
           THEN Fail("Location name cannot be empty", <<>>)
                /\ UNCHANGED ipm_config
           ELSE IF matching = <<>>
           THEN Fail("Location '{}' not found", <<location>>)
                /\ UNCHANGED ipm_config
           ELSE IF products_with_stock(products, matching[1]) # {}
           THEN Fail("Cannot remove '{}' - has stock for {}",
                     <<matching[1],
                       products[CHOOSE id \in products_with_stock(products,
                                    matching[1]) : TRUE].name>>)
                /\ UNCHANGED ipm_config
           ELSE /\ ipm_save_config([config EXCEPT
                       !.locations = Without(locations, matching[1])])
                /\ Ok("removed:{}", <<matching[1]>>)
    /\ UNCHANGED <<ipm_inventory, backups>>
    /\ IpmDataFrame

----------------------------------------------------------------------------
(* STR - data management commands (str_backend.py)                         *)
(* The data of a str backup file is the document under its "mobs" key.     *)

\* what the str data commands leave alone
StrDataFrame ==
    UNCHANGED <<backend, damage, now, asmFiles, ipmFiles, wssFiles, weatherFiles,
                listFiles>>

str_cmd_export ==
    /\ backend = "str"
    /\ LET backup_file == s_stock_ \o strftime_YmdHMS(now) \o s_dot_json
       IN  /\ backups' = Put(backups, backup_file,
                   backup_structure("str_backup", "", load_mobs,
                                    str_load_config))
           /\ Ok("{}", <<backup_file>>)
    /\ UNCHANGED strFiles
    /\ StrDataFrame

\* backup_data.get("type") == "str_backup"
is_str_backup(backup_data) == backup_data.type = "str_backup"

cmd_import_backup(a_filename) ==
    /\ backend = "str"
    /\ LET filename == Strip(a_filename)
           pre_import_file ==
               s_pre_import_ \o strftime_YmdHMS(now) \o s_dot_json
       IN  IF filename = <<>>
           THEN Fail("Filename is required", <<>>)
                /\ UNCHANGED <<strFiles, backups>>
           ELSE IF filename \notin DOMAIN backups
           THEN Fail("Backup file '{}' not found", <<filename>>)
                /\ UNCHANGED <<strFiles, backups>>
           ELSE IF ~backups[filename].json
           THEN Fail("Invalid JSON in backup file: {}", <<>>)
                /\ UNCHANGED <<strFiles, backups>>
           ELSE IF ~is_str_backup(backups[filename])
           THEN Fail("File is not a valid STR backup", <<>>)
                /\ UNCHANGED <<strFiles, backups>>
           ELSE IF backups[filename].data = None
           THEN Fail("Backup contains invalid mobs data", <<>>)
                /\ UNCHANGED <<strFiles, backups>>
           ELSE
             LET mobs_data == backups[filename].data[1]
                 config == backups[filename].config
             IN  /\ backups' = Put(backups, pre_import_file,
                         backup_structure("str_backup",
                             "Pre-import automatic backup",
                             load_mobs, str_load_config))
                 /\ save_mobs(mobs_data)
                 /\ IF config # None
                    THEN str_save_config(config[1])
                    ELSE UNCHANGED str_config
                 /\ Ok("imported:{n}:{}",
                       <<Cardinality(DOMAIN mobs_data.mobs),
                         pre_import_file>>)
    /\ StrDataFrame

str_cmd_reset(a_token) ==
    /\ backend = "str"
    /\ LET current_mobs == load_mobs
           current_config == str_load_config
           pre_reset_file ==
               s_pre_reset_ \o strftime_YmdHMS(now) \o s_dot_json
       IN  IF Strip(a_token) # s_CONFIRM_RESET
           THEN Fail("Invalid confirmation token. Use --token CONFIRM_RESET",
                     <<>>)
                /\ UNCHANGED <<strFiles, backups>>
           ELSE /\ IF DOMAIN current_mobs.mobs # {}
                   THEN backups' = Put(backups, pre_reset_file,
                            backup_structure("str_backup",
                                "Pre-reset automatic backup",
                                current_mobs, current_config))
                   ELSE UNCHANGED backups
                /\ save_mobs([mobs |-> EmptyMap, movements |-> <<>>,
                              created |-> now, modified |-> now])
                /\ str_save_config(create_default_config)
                /\ Ok("reset", <<>>)
    /\ StrDataFrame

----------------------------------------------------------------------------
(* WSS - worker safety system (wss_backend.py)                             *)
(* A user record keeps tracker_id as the one device id; activity_id and    *)
(* notify_id are handled by the same statements.  The config document      *)
(* keeps its zones; timing, working_hours and roles are not touched by the *)
(* commands below.                                                         *)

\* the ids uuid4 hands out
UserIdPool == <<s_user_1, s_user_2, s_user_3>>

load_users ==
    IF wss_users = <<>>
    THEN [users |-> EmptyMap, modified |-> NoStamp]
    ELSE wss_users[1]

save_users(data) == wss_users' = <<[data EXCEPT !.modified = now]>>

wss_create_default_config ==
    [version |-> s_version_1_0_0,
     zones |-> EmptyMap,
     created |-> now,
     modified |-> now]

wss_load_config ==
    IF wss_config = <<>> THEN wss_create_default_config ELSE wss_config[1]

wss_save_config(config) ==
    wss_config' = <<[config EXCEPT !.modified = now]>>

\* a lookup that never finds the person
users_with_person_none(users, person_id) == {}

\* the uids whose record carries this person_id
users_with_person(users, person_id) ==
    {uid \in DOMAIN users : users[uid].person_id = person_id}

\* an update that also puts the admin flags back to their defaults
reset_user(user, username, tracker_id) ==
    [user EXCEPT !.tracker_id = tracker_id, !.username = username,
                 !.enabled = FALSE, !.track_external = FALSE]

\* the assignments to users[existing_id] for a person already on file
updated_user(user, username, tracker_id) ==
    [user EXCEPT !.tracker_id = tracker_id, !.username = username]

new_user(user_id, person_id, username, tracker_id, enabled) ==
    [id |-> user_id,
     person_id |-> person_id,
     username |-> username,
     tracker_id |-> tracker_id,
     enabled |-> enabled,
     track_external |-> FALSE]

\* what every wss command leaves alone
WssFrame ==
    UNCHANGED <<backend, damage, now, strFiles, asmFiles, ipmFiles, weatherFiles,
                listFiles, backups>>

\* generate_user_id(): uuid4 is modelled as the first id of the pool not in
\* use (a uuid4 collision is not modelled); <<>> when the pool is used up
generate_user_id(users) ==
    LET free == {k \in 1..Len(UserIdPool) : UserIdPool[k] \notin DOMAIN users}
    IN  IF free = {} THEN <<>>
        ELSE UserIdPool[CHOOSE k \in free : \A j \in free : k <= j]

\* the for-loop of cmd_discover_users; acc.full records that the id pool
\* ran out
RECURSIVE discover_loop(_, _)
discover_loop(acc, discovered) ==
    IF discovered = <<>> \/ acc.full THEN acc
    ELSE
      LET person == Head(discovered)
          users == acc.users
          existing == users_with_person(users, person.person_id)
          user_id == generate_user_id(users)
      IN  IF person.person_id = <<>>
          THEN discover_loop(acc, Tail(discovered))
          ELSE IF existing # {}
          THEN LET existing_id == CHOOSE uid \in existing : TRUE
               IN  discover_loop(
                       [acc EXCEPT
                          !.users[existing_id] =
                              updated_user(@, person.username,
                                           person.tracker_id),
                          !.updated = @ + 1],
                       Tail(discovered))
          ELSE IF user_id = <<>> THEN [acc EXCEPT !.full = TRUE]
          ELSE discover_loop(
                   [acc EXCEPT
                      !.users = Put(users, user_id,
                                    new_user(user_id, person.person_id,
                                             person.username,
                                             person.tracker_id, FALSE)),
                      !.added = @ + 1],
                   Tail(discovered))

cmd_discover_users(a_users_json) ==
    /\ backend = "wss"
    /\ IF a_users_json.kind = "empty"
       THEN Ok("no_data", <<>>) /\ UNCHANGED wssFiles
       ELSE IF a_users_json.kind = "malformed"
       THEN Fail("Invalid JSON: {}", <<>>) /\ UNCHANGED wssFiles
       ELSE IF a_users_json.kind # "list"
       THEN Fail("users data must be a JSON array", <<>>)
            /\ UNCHANGED wssFiles
       ELSE
         LET data == load_users
             r == discover_loop([users |-> data.users, added |-> 0,
                                 updated |-> 0, full |-> FALSE],
                                a_users_json.items)
         IN  /\ ~r.full
             /\ save_users([data EXCEPT !.users = r.users])
             /\ UNCHANGED wss_config
             /\ Ok("added:{n}:updated:{n}", <<r.added, r.updated>>)
    /\ WssFrame

cmd_add_user(a_person_id, a_username, a_tracker_id) ==
    /\ backend = "wss"
    /\ LET person_id == Strip(a_person_id)
           data == load_users
           users == data.users
           existing == users_with_person(users, person_id)
           username == Strip(a_username)
           tracker_id == Strip(a_tracker_id)
           user_id == generate_user_id(users)
       IN  IF person_id = <<>>
           THEN Fail("--person_id is required", <<>>) /\ UNCHANGED wssFiles
           ELSE IF existing # {}
           THEN LET existing_id == CHOOSE uid \in existing : TRUE
                IN  /\ save_users([data EXCEPT
                           !.users[existing_id] =
                               updated_user(@, username, tracker_id)])
                    /\ UNCHANGED wss_config
                    /\ Ok("updated:{}", <<existing_id>>)
           ELSE /\ user_id # <<>>
                /\ save_users([data EXCEPT !.users =
                       Put(users, user_id,
                           new_user(user_id, person_id, username,
                                    tracker_id, FALSE))])
                /\ UNCHANGED wss_config
                /\ Ok("added:{}", <<user_id>>)
    /\ WssFrame

\* args.enabled.lower() in ("true", "1", "yes", "on") if args.enabled else False
flag_value(a_flag) == Lower(a_flag) \in {s_true, s_1, s_yes, s_on}

cmd_set_user_enabled(a_user_id, a_enabled) ==
    /\ backend = "wss"
    /\ LET user_id == Strip(a_user_id)
           enabled == flag_value(a_enabled)
           data == load_users
           users == data.users
       IN  IF user_id = <<>>
           THEN Fail("--user_id is required", <<>>) /\ UNCHANGED wssFiles
           ELSE IF user_id \notin DOMAIN users
           THEN Fail("User '{}' not found", <<user_id>>)
                /\ UNCHANGED wssFiles
           ELSE /\ save_users([data EXCEPT !.users[user_id].enabled = enabled])
                /\ UNCHANGED wss_config
                /\ Ok("{}:enabled:{b}", <<user_id, enabled>>)
    /\ WssFrame

\* the users for-loop of cmd_import_legacy
RECURSIVE import_users_loop(_, _)
import_users_loop(acc, legacy_user_list) ==
    IF legacy_user_list = <<>> \/ acc.full THEN acc
    ELSE
      LET lu == Head(legacy_user_list)
          users == acc.users
          user_id == generate_user_id(users)
      IN  IF lu.personID = <<>> \/ users_with_person(users, lu.personID) # {}
          THEN import_users_loop(acc, Tail(legacy_user_list))
          ELSE IF user_id = <<>> THEN [acc EXCEPT !.full = TRUE]
          ELSE import_users_loop(
                   [acc EXCEPT !.users =
                       Put(users, user_id,
                           new_user(user_id, lu.personID, lu.username,
                                    lu.trackerID, TRUE))],
                   Tail(legacy_user_list))

\* the zones for-loop of cmd_import_legacy
RECURSIVE import_zones_loop(_, _)
import_zones_loop(zones, legacy_zone_list) ==
    IF legacy_zone_list = <<>> THEN zones
    ELSE
      LET lz == Head(legacy_zone_list)
      IN  IF lz.entity = <<>>
          THEN import_zones_loop(zones, Tail(legacy_zone_list))
          ELSE import_zones_loop(
                   Put(zones, lz.entity,
                       [monitored |-> lz.monitored, away |-> lz.away,
                        name |-> lz.name]),
                   Tail(legacy_zone_list))

\* A legacy file is absent, unreadable as the expected JSON, or a list.
cmd_import_legacy(users_file, zones_file) ==
    /\ backend = "wss"
    /\ LET data == load_users
           users_ok == users_file.kind = "list"
           zones_ok == zones_file.kind = "list"
           r == import_users_loop([users |-> data.users, full |-> FALSE],
                                  users_file.items)
           config == wss_load_config
       IN  /\ IF users_ok
              THEN ~r.full /\ save_users([data EXCEPT !.users = r.users])
              ELSE UNCHANGED wss_users
           /\ IF users_file.kind = "malformed"
              THEN /\ Fail("Failed to import users: {}", <<>>)
                   /\ UNCHANGED wss_config
              ELSE IF zones_file.kind = "malformed"
              THEN /\ Fail("Failed to import zones: {}", <<>>)
                   /\ UNCHANGED wss_config
              ELSE IF zones_ok
              THEN /\ wss_save_config([config EXCEPT !.zones =
                          import_zones_loop(@, zones_file.items)])
                   /\ IF users_ok
                      THEN Ok("users:{n},zones:{n}",
                              <<Len(users_file.items), Len(zones_file.items)>>)
                      ELSE Ok("zones:{n}", <<Len(zones_file.items)>>)
              ELSE /\ UNCHANGED wss_config
                   /\ IF users_ok
                      THEN Ok("users:{n}", <<Len(users_file.items)>>)
                      ELSE Fail("No legacy files found", <<>>)
    /\ WssFrame

----------------------------------------------------------------------------
(* Weather API stations (weather_api_backend.py)                           *)
(* A station keeps latitude as its one numeric field; elevation is handled *)
(* by the same statements.                                                 *)

VALID_SLOTS == <<s_1, s_2, s_3, s_4>>

default_config ==
    [stations |-> EmptyMap, created |-> NoStamp, modified |-> NoStamp,
     version |-> s_version_1_1_0]

weather_load_config ==
    IF weather_config = <<>> THEN default_config ELSE weather_config[1]

\* config["modified"] = now; setdefault("created", now): the key is always
\* there, so created is kept as loaded
weather_save_config(config) ==
    weather_config' =
        <<[config EXCEPT !.modified = now, !.version = s_version_1_1_0]>>

\* the latitude a new station gets when none is given
DefaultLatitude == -35

normalise_station(a_name, a_imei, a_latitude) ==
    [enabled |-> TRUE,
     name |-> Strip(a_name),
     imei |-> Strip(a_imei),
     latitude |-> IF a_latitude # None THEN a_latitude[1]
                  ELSE DefaultLatitude,
     created |-> now,
     modified |-> now]

\* what every weather command leaves alone
WeatherFrame ==
    UNCHANGED <<backend, damage, now, strFiles, asmFiles, ipmFiles, wssFiles,
                listFiles, backups>>

weather_cmd_init ==
    /\ backend = "weather"
    /\ IF weather_config = <<>>
       THEN /\ weather_save_config(
                   [default_config EXCEPT !.created = now, !.modified = now])
            /\ Ok("created:config", <<>>)
       ELSE /\ weather_save_config(weather_load_config)
            /\ Ok("already_initialized", <<>>)
    /\ WeatherFrame

cmd_add_station(a_slot, a_name, a_imei, a_latitude) ==
    /\ backend = "weather"
    /\ LET name == Strip(a_name)
           imei == Strip(a_imei)
           cfg == weather_load_config
       IN  IF ~InList(a_slot, VALID_SLOTS)
           THEN Fail("Invalid slot '{}'. Must be 1-4.", <<a_slot>>)
                /\ UNCHANGED weather_config
           ELSE IF name = <<>>
           THEN Fail("Station name is required.", <<>>)
                /\ UNCHANGED weather_config
           ELSE IF imei = <<>>
           THEN Fail("Station IMEI is required.", <<>>)
                /\ UNCHANGED weather_config
           ELSE IF id_taken(a_slot, cfg.stations)
           THEN Fail("Slot {} already configured. Use edit_station to modify.",
                     <<a_slot>>)
                /\ UNCHANGED weather_config
           ELSE /\ weather_save_config([cfg EXCEPT !.stations =
                       Put(@, a_slot,
                           normalise_station(a_name, a_imei, a_latitude))])
                /\ Ok("{}:{}", <<a_slot, name>>)
    /\ WeatherFrame

cmd_edit_station(a_slot, a_name, a_imei, a_latitude) ==
    /\ backend = "weather"
    /\ LET cfg == weather_load_config
       IN  IF ~InList(a_slot, VALID_SLOTS)
           THEN Fail("Invalid slot '{}'. Must be 1-4.", <<a_slot>>)
                /\ UNCHANGED weather_config
           ELSE IF a_slot \notin DOMAIN cfg.stations
           THEN Fail("Slot {} not configured. Use add_station first.",
                     <<a_slot>>)
                /\ UNCHANGED weather_config
           ELSE
             LET st0 == cfg.stations[a_slot]
                 st1 == IF a_name # None /\ Strip(a_name[1]) # <<>>
                        THEN [st0 EXCEPT !.name = Strip(a_name[1])] ELSE st0
                 st2 == IF a_imei # None /\ Strip(a_imei[1]) # <<>>
                        THEN [st1 EXCEPT !.imei = Strip(a_imei[1])] ELSE st1
                 st3 == IF a_latitude # None
                        THEN [st2 EXCEPT !.latitude = a_latitude[1]] ELSE st2
                 st4 == [st3 EXCEPT !.modified = now]
             IN  /\ weather_save_config([cfg EXCEPT !.stations[a_slot] = st4])
                 /\ Ok("{}:{}", <<a_slot, st4.name>>)
    /\ WeatherFrame

cmd_remove_station(a_slot) ==
    /\ backend = "weather"
    /\ LET cfg == weather_load_config
       IN  IF ~InList(a_slot, VALID_SLOTS)
           THEN Fail("Invalid slot '{}'. Must be 1-4.", <<a_slot>>)
                /\ UNCHANGED weather_config
           ELSE IF a_slot \notin DOMAIN cfg.stations
           THEN Fail("Slot {} not configured.", <<a_slot>>)
                /\ UNCHANGED weather_config
           ELSE /\ weather_save_config(
                       [cfg EXCEPT !.stations = Del(@, a_slot)])
                /\ Ok("{}:{}", <<a_slot, cfg.stations[a_slot].name>>)
    /\ WeatherFrame

\* cmd_enable_station (enabled = TRUE) and cmd_disable_station (FALSE)
cmd_set_station_enabled(a_slot, enabled) ==
    /\ backend = "weather"
    /\ LET cfg == weather_load_config
       IN  IF ~InList(a_slot, VALID_SLOTS)
           THEN Fail("Invalid slot '{}'. Must be 1-4.", <<a_slot>>)
                /\ UNCHANGED weather_config
           ELSE IF a_slot \notin DOMAIN cfg.stations
           THEN Fail("Slot {} not configured.", <<a_slot>>)
                /\ UNCHANGED weather_config
           ELSE /\ weather_save_config([cfg EXCEPT
                       !.stations[a_slot].enabled = enabled,
                       !.stations[a_slot].modified = now])
                /\ IF enabled THEN Ok("{}:enabled", <<a_slot>>)
                   ELSE Ok("{}:disabled", <<a_slot>>)
    /\ WeatherFrame

----------------------------------------------------------------------------
(* The older inventory script (InventoryProductManager/Pthyon/ipm_list.py) *)
(* A product keeps the fields the script reads back: id, name, category,   *)
(* location and stock_on_hand.  The script prints nothing on success.      *)

\* leading entries of the table
CATEGORY_PREFIX ==
    (s_chemical :> s_CHEM) @@ (s_chemicals :> s_CHEM)
    @@ (s_seed :> s_SEED) @@ (s_seeds :> s_SEED)
    @@ (s_fertiliser :> s_FERT) @@ (s_fertilizer :> s_FERT)
    @@ (s_fertilisers :> s_FERT)
    @@ (s_lubricant :> s_LUBE) @@ (s_lubricants :> s_LUBE)

list_load_data ==
    IF list_data = <<>>
    THEN [products |-> <<>>, transactions |-> <<>>]
    ELSE list_data[1]

list_save_data(data) == list_data' = <<data>>

IsAlnum(c) == IsAlpha(c) \/ c \in Digits

\* the character loop of slugify
RECURSIVE slug_chars(_)
slug_chars(text) ==
    IF text = <<>> THEN <<>>
    ELSE (IF IsAlnum(Head(text)) THEN <<UpperChar(Head(text))>>
          ELSE IF Head(text) \in {" ", "-", "_"} THEN <<"_">>
          ELSE <<>>)
         \o slug_chars(Tail(text))

\* while "__" in slug: slug = slug.replace("__", "_")
RECURSIVE collapse_underscores(_)
collapse_underscores(s) ==
    IF Len(s) < 2 THEN s
    ELSE IF s[1] = "_" /\ s[2] = "_" THEN collapse_underscores(Tail(s))
    ELSE <<Head(s)>> \o collapse_underscores(Tail(s))

slugify(text) ==
    LET slug == strip_underscores(collapse_underscores(slug_chars(text)))
    IN  IF slug # <<>> THEN slug ELSE s_ITEM

list_normalize_category(cat) == Lower(Strip(cat))

\* the idx loop of generate_product_id: the first free candidate suffix
RECURSIVE first_free_id(_, _, _)
first_free_id(candidate, idx, existing_ids) ==
    LET pid == IF idx = 1 THEN candidate
               ELSE candidate \o <<"_">> \o IntStr(idx)
    IN  IF pid \in existing_ids
        THEN first_free_id(candidate, idx + 1, existing_ids)
        ELSE pid

generate_product_id(category, name, location, existing_ids) ==
    LET key == list_normalize_category(category)
        prefix == IF key \in DOMAIN CATEGORY_PREFIX THEN CATEGORY_PREFIX[key]
                  ELSE s_IPM
        base == prefix \o <<"_">> \o slugify(name)
        loc == IF location # <<>> THEN slugify(location) ELSE s_LOC
        candidate == base \o <<"_">> \o loc \o <<"_">> \o strftime_Ymd(now)
    IN  first_free_id(candidate, 1, existing_ids)

\* index of the product find_product(data, "", name, location) returns,
\* 0 for None
find_product(data, name, location) ==
    LET n == Lower(Strip(name))
        l == Lower(Strip(location))
        hits == {i \in 1..Len(data.products) :
                    /\ Lower(Strip(data.products[i].name)) = n
                    /\ Lower(Strip(data.products[i].location)) = l}
    IN  IF hits = {} THEN 0 ELSE CHOOSE i \in hits : \A j \in hits : i <= j

add_transaction(data, product_id, name, category, location, action, qty) ==
    [data EXCEPT !.transactions = Append(@,
        [ts |-> now,
         id |-> product_id,
         name |-> name,
         category |-> category,
         location |-> location,
         action |-> action,
         quantity |-> qty])]

existing_ids_of(data) ==
    {data.products[i].id : i \in 1..Len(data.products)}

\* the script returns 0 without printing
Silent ==
    /\ rc' = 0
    /\ out' = [status |-> "", msg |-> "", val |-> <<>>]

\* what every invocation of the script leaves alone
ListFrame ==
    UNCHANGED <<backend, damage, now, strFiles, asmFiles, ipmFiles, wssFiles,
                weatherFiles, backups>>

handle_upsert(category, location, name) ==
    /\ backend = "ipm_list"
    /\ LET data == list_load_data
           found == find_product(data, name, location)
           product_id ==
               IF found = 0
               THEN generate_product_id(category, name, location,
                                        existing_ids_of(data))
               ELSE data.products[found].id
           product == [id |-> product_id,
                       name |-> name,
                       category |-> category,
                       location |-> location,
                       stock_on_hand |->
                           IF found = 0 THEN 0
                           ELSE data.products[found].stock_on_hand]
           data1 == IF found = 0
                    THEN [data EXCEPT !.products = Append(@, product)]
                    ELSE [data EXCEPT !.products[found] = product]
       IN  /\ list_save_data(add_transaction(data1, product_id, name,
                                 category, location, s_upsert, 0))
           /\ Silent
    /\ ListFrame

handle_update(category, location, name, action, qty) ==
    /\ backend = "ipm_list"
    /\ LET data == list_load_data
           found == find_product(data, name, location)
           product == IF found = 0
                      THEN [id |-> generate_product_id(category, name,
                                       location, existing_ids_of(data)),
                            name |-> name,
                            category |-> category,
                            location |-> location,
                            stock_on_hand |-> 0]
                      ELSE data.products[found]
           current == product.stock_on_hand
           action_flag == Lower(action)
           change == IF action_flag = s_use THEN 0 - Abs(qty) ELSE Abs(qty)
           new_stock == IF current + change < 0 THEN 0 ELSE current + change
           product1 == [product EXCEPT !.stock_on_hand = new_stock]
           data1 == IF found = 0
                    THEN [data EXCEPT !.products = Append(@, product1)]
                    ELSE [data EXCEPT !.products[found] = product1]
       IN  /\ list_save_data(add_transaction(data1, product.id, product.name,
                                 category, location,
                                 IF action_flag # <<>> THEN action_flag
                                 ELSE s_add, change))
           /\ Silent
    /\ ListFrame

----------------------------------------------------------------------------
(* The data file as bytes: what read_text and json.loads make of a file    *)
(* that an interrupted write or a foreign tool has left behind.            *)

DamageKinds == {"empty", "truncated", "malformed_json", "malformed_encoding"}

\* the built-in exception classes involved and all their base classes;
\* IOError is an alias of OSError
ExceptionBases ==
    [JSONDecodeError |-> {"JSONDecodeError", "ValueError", "Exception"},
     UnicodeDecodeError |->
         {"UnicodeDecodeError", "UnicodeError", "ValueError", "Exception"}]

Returned(value) == [raised |-> "", value |-> value]
Raised(exception) == [raised |-> exception, value |-> <<>>]

\* Path.read_text(encoding="utf-8")
read_text(file) ==
    IF damage = "malformed_encoding"
    THEN Raised("UnicodeDecodeError")
    ELSE Returned(file)

\* json.loads
json_loads(text) ==
    IF damage \in {"empty", "truncated", "malformed_json"}
    THEN Raised("JSONDecodeError")
    ELSE Returned(text[1])

\* except <classes>: return default
except_classes(result, classes, default) ==
    IF /\ result.raised # ""
       /\ ExceptionBases[result.raised] \cap classes # {}
    THEN Returned(default)
    ELSE result

\* try: return json.loads(FILE.read_text(encoding="utf-8"))
try_load(file) ==
    LET text == read_text(file)
    IN  IF text.raised # "" THEN text ELSE json_loads(text.value)

\* if not DATA_FILE.exists(): return default; try ... except
\* (json.JSONDecodeError, IOError): return default
load_file(file, default) ==
    IF file = <<>>
    THEN Returned(default)
    ELSE except_classes(try_load(file), {"JSONDecodeError", "OSError"},
                        default)

ipm_empty_document == [products |-> EmptyMap, transactions |-> <<>>]
asm_empty_document ==
    [assets |-> EmptyMap, parts |-> EmptyMap,
     service_events |-> <<>>, transactions |-> <<>>]
str_empty_document ==
    [mobs |-> EmptyMap, movements |-> <<>>,
     created |-> NoStamp, modified |-> NoStamp]
list_empty_document == [products |-> <<>>, transactions |-> <<>>]

\* ipm_list.py load_data: except Exception: pass
list_load_file ==
    IF list_data = <<>>
    THEN Returned(list_empty_document)
    ELSE except_classes(try_load(list_data), {"Exception"},
                        list_empty_document)

\* the interpreter after the call: the value is at hand, or the traceback
\* of the exception nobody caught is printed and the exit status is 1
Loaded(result) ==
    /\ rc' = IF result.raised = "" THEN 0 ELSE 1
    /\ out' = IF result.raised = ""
              THEN [status |-> "loaded", msg |-> "", val |-> <<result.value>>]
              ELSE [status |-> "Traceback", msg |-> result.raised,
                    val |-> <<>>]
    /\ UNCHANGED <<backend, damage, now, allFiles>>

call_load_inventory ==
    /\ backend = "ipm"
    /\ Loaded(load_file(ipm_inventory, ipm_empty_document))

call_load_data ==
    /\ backend = "asm"
    /\ Loaded(load_file(asm_data, asm_empty_document))

call_load_mobs ==
    /\ backend = "str"
    /\ Loaded(load_file(str_mobs, str_empty_document))

call_list_load_data ==
    /\ backend = "ipm_list"
    /\ Loaded(list_load_file)

\* the data file of the running backend
DataFile ==
    CASE backend = "ipm" -> ipm_inventory
      [] backend = "asm" -> asm_data
      [] backend = "str" -> str_mobs
      [] backend = "ipm_list" -> list_data
      [] OTHER -> <<>>

\* write_text is not atomic and the file is open to other tools: between
\* two invocations an existing file can be left in any damaged condition
damage_file(kind) ==
    /\ DataFile # <<>>
    /\ damage = "none"
    /\ damage' = kind
    /\ UNCHANGED <<backend, now, rc, out, allFiles>>
----------------------------------------------------------------------------
(* The sensors: read-only scripts that print one JSON object for the       *)
(* display layer.  A JSON object is a record, its keys are the DOMAIN.     *)
(* Lists that the code fills in dictionary order are kept as sets.         *)

\* the printable characters in code point order (no name holds a double quote,
\* a backslash or a backquote)
Ascii ==
    <<
      " ", "!", "#", "$", "%", "&", "'", "(", ")", "*", "+",
      ",", "-", ".", "/", "0", "1", "2", "3", "4", "5", "6", "7",
      "8", "9", ":", ";", "<", "=", ">", "?", "@", "A", "B", "C",
      "D", "E", "F", "G", "H", "I", "J", "K", "L", "M", "N", "O",
      "P", "Q", "R", "S", "T", "U", "V", "W", "X", "Y", "Z", "[",
      "]", "^", "_", "a", "b", "c", "d", "e", "f", "g",
      "h", "i", "j", "k", "l", "m", "n", "o", "p", "q", "r", "s",
      "t", "u", "v", "w", "x", "y", "z", "{", "|", "}", "~"
    >>

CharRank(c) == CHOOSE i \in 1..Len(Ascii) : Ascii[i] = c

\* a < b on str
RECURSIVE TextLess(_, _)
TextLess(a, b) ==
    IF b = <<>> THEN FALSE
    ELSE IF a = <<>> THEN TRUE
    ELSE IF a[1] = b[1] THEN TextLess(Tail(a), Tail(b))
    ELSE CharRank(a[1]) < CharRank(b[1])

\* sorted(S, key=lambda x: key[x]) with text keys
RECURSIVE SortedByText(_, _)
SortedByText(S, key) ==
    IF S = {} THEN <<>>
    ELSE LET m == CHOOSE x \in S : \A y \in S : ~TextLess(key[y], key[x])
         IN  <<m>> \o SortedByText(S \ {m}, key)

\* sorted(S, key=lambda x: key[x], reverse=True) with number keys
RECURSIVE SortedByNumberDesc(_, _)
SortedByNumberDesc(S, key) ==
    IF S = {} THEN <<>>
    ELSE LET m == CHOOSE x \in S : \A y \in S : key[y] <= key[x]
         IN  <<m>> \o SortedByNumberDesc(S \ {m}, key)

\* the same on the positions of a list: equal keys keep their order
RECURSIVE StableByNumberDesc(_, _)
StableByNumberDesc(S, key) ==
    IF S = {} THEN <<>>
    ELSE LET m == CHOOSE x \in S :
                    /\ \A y \in S : key[y] <= key[x]
                    /\ \A y \in S : key[y] = key[x] => x <= y
         IN  <<m>> \o StableByNumberDesc(S \ {m}, key)

Reverse(s) == [i \in 1..Len(s) |-> s[Len(s) + 1 - i]]

\* sum(f[x] for x in S)
RECURSIVE SumOver(_, _)
SumOver(S, f) ==
    IF S = {} THEN 0
    ELSE LET x == CHOOSE y \in S : TRUE
         IN  f[x] + SumOver(S \ {x}, f)

\* name.endswith(".json")
EndsWithJson(name) ==
    /\ Len(name) >= Len(s_dot_json)
    /\ SubSeq(name, Len(name) - Len(s_dot_json) + 1, Len(name)) = s_dot_json

\* get_backup_info: the *.json files of the backups directory, newest name
\* first; counts gives the number of entries of each backed-up document
get_backup_info(counts) ==
    LET names == {f \in DOMAIN backups : EndsWithJson(f)}
        filenames == Reverse(SortedByText(names, [f \in names |-> f]))
        info(f) ==
            IF backups[f].json
            THEN [filename |-> f, created |-> backups[f].created,
                  note |-> backups[f].note, count |-> counts[f]]
            ELSE [filename |-> f, created |-> NoStamp,
                  note |-> "Unable to read", count |-> 0]
        readable == SelectSeq(filenames, LAMBDA f : backups[f].json)
    IN  [backup_count |-> Len(filenames),
         last_backup |-> IF readable = <<>> THEN None
                         ELSE Some(info(readable[1])),
         backup_filenames |-> filenames]

\* the VERSION file is outside the data directory and not kept here
get_version == "unknown"

\* str_sensor.py load_config
str_sensor_load_config ==
    IF str_config = <<>>
    THEN [version |-> None,
          age_classes |-> DEFAULT_AGE_CLASSES,
          crosses |-> DEFAULT_CROSSES,
          attributes |-> DEFAULT_ATTRIBUTES,
          off_farm_locations |-> DEFAULT_OFF_FARM_LOCATIONS]
    ELSE str_config[1]

\* len(data.get("mobs", {}).get("mobs", {}))
str_backup_count(backup) ==
    IF backup.data = None THEN 0
    ELSE Cardinality(DOMAIN backup.data[1].mobs)

\* the part of the output that main computes before it looks at mobs.json
str_sensor_head ==
    LET config == str_sensor_load_config
        attributes == config.attributes
        paddocks == load_registry.paddocks
        by_name == SortedByText(DOMAIN paddocks,
                                [p \in DOMAIN paddocks |-> paddocks[p].name])
        backup_info ==
            get_backup_info([f \in DOMAIN backups |->
                                str_backup_count(backups[f])])
        config_exists == str_config # <<>>
        mobs_file_exists == str_mobs # <<>>
    IN  [age_classes |-> config.age_classes,
         crosses |-> config.crosses,
         attributes |-> attributes,
         attribute_ids |->
             [i \in 1..Len(attributes) |-> attributes[i].id],
         off_farm_locations |-> config.off_farm_locations,
         paddocks |-> paddocks,
         paddock_names |->
             [i \in 1..Len(by_name) |->
                 [id |-> by_name[i], name |-> paddocks[by_name[i]].name]],
         system_status |->
             IF config_exists \/ mobs_file_exists
             THEN "ready" ELSE "not_initialized",
         config_exists |-> config_exists,
         mobs_file_exists |-> mobs_file_exists,
         registry_exists |-> TRUE,
         config_version |->
             IF config.version = None THEN s_version_1_0_0
             ELSE config.version,
         backup_count |-> backup_info.backup_count,
         last_backup |-> backup_info.last_backup,
         backup_filenames |-> backup_info.backup_filenames,
         version |-> get_version]

\* empty_output
str_empty_output ==
    [total_mobs |-> 0,
     total_head |-> 0,
     on_farm_head |-> 0,
     off_farm_head |-> 0,
     mobs |-> EmptyMap,
     mob_names |-> <<>>,
     mob_ids |-> {},
     mobs_by_location |-> EmptyMap,
     mobs_by_age_class |-> EmptyMap,
     mobs_by_cross |-> EmptyMap,
     on_farm_mobs |-> {},
     off_farm_mobs |-> {},
     recent_movements |-> <<>>]
    @@ str_sensor_head

\* the groups main builds over the mobs that carry a value in a field
mobs_grouped(mobs, members, field, label) ==
    LET values == {mobs[m][field] : m \in members} \ {<<>>}
        of(v) == {m \in members : mobs[m][field] = v}
        item(m) == [id |-> m, name |-> mobs[m].name,
                    head_count |-> mobs[m].head_count]
    IN  [v \in values |->
            [label |-> v,
             mobs |-> {item(m) : m \in of(v)},
             total_head |->
                 SumOver(of(v), [m \in of(v) |-> mobs[m].head_count])]]

\* output, from the parsed document
str_output(data) ==
    LET mobs == data.mobs
        movements == data.movements
        attributes == str_sensor_load_config.attributes
        ids == DOMAIN mobs
        off == {m \in ids : mobs[m].off_farm}
        on == ids \ off
        head == [m \in ids |-> mobs[m].head_count]
        attr_names(m) ==
            LET mine == SelectSeq(attributes,
                            LAMBDA a : InList(a.id, mobs[m].attributes))
            IN  [i \in 1..Len(mine) |-> mine[i].name]
        shown == [m \in ids |->
                     [display_name |-> mobs[m].name,
                      display_location |-> mobs[m].location_name,
                      attribute_names |-> attr_names(m)] @@ mobs[m]]
        by_name == SortedByText(ids, [m \in ids |-> mobs[m].name])
        by_location == mobs_grouped(mobs, on, "location", "location_id")
        by_age_class == mobs_grouped(mobs, ids, "age_class", "age_class")
        by_cross == mobs_grouped(mobs, ids, "cross", "cross")
        location_name(l) ==
            mobs[CHOOSE m \in on : mobs[m].location = l].location_name
        by_location_name ==
            SortedByText(DOMAIN by_location,
                         [l \in DOMAIN by_location |-> location_name(l)])
        by_total_head ==
            SortedByNumberDesc(DOMAIN by_age_class,
                [c \in DOMAIN by_age_class |-> by_age_class[c].total_head])
        newest == StableByNumberDesc(1..Len(movements),
                      [i \in 1..Len(movements) |-> movements[i].timestamp])
    IN  [total_mobs |-> Cardinality(ids),
         total_head |-> SumOver(ids, head),
         on_farm_head |-> SumOver(on, [m \in on |-> head[m]]),
         off_farm_head |-> SumOver(off, [m \in off |-> head[m]]),
         mobs |-> shown,
         mob_names |-> [i \in 1..Len(by_name) |-> mobs[by_name[i]].name],
         mob_ids |-> ids,
         mobs_by_location |->
             [l \in DOMAIN by_location |->
                 [location_name |-> location_name(l)] @@ by_location[l]],
         mobs_by_age_class |-> by_age_class,
         mobs_by_cross |-> by_cross,
         on_farm_mobs |->
             {[id |-> m, name |-> mobs[m].name, head_count |-> head[m],
               location |-> mobs[m].location,
               location_name |-> mobs[m].location_name] : m \in on},
         off_farm_mobs |->
             {[id |-> m, name |-> mobs[m].name, head_count |-> head[m],
               reason |-> mobs[m].off_farm_details[1].reason] : m \in off},
         location_summaries |->
             [i \in 1..Len(by_location_name) |->
                 LET l == by_location_name[i]
                 IN  [id |-> l, name |-> location_name(l),
                      mob_count |-> Cardinality(by_location[l].mobs),
                      total_head |-> by_location[l].total_head]],
         age_class_summaries |->
             [i \in 1..Len(by_total_head) |->
                 LET c == by_total_head[i]
                 IN  [age_class |-> c,
                      mob_count |-> Cardinality(by_age_class[c].mobs),
                      total_head |-> by_age_class[c].total_head]],
         recent_movements |->
             [i \in 1..Len(newest) |-> movements[newest[i]]]]
        @@ [str_sensor_head EXCEPT !.system_status = "ready"]

\* str_sensor.py main: what the run hands to print, or the exception that
\* ends it.  mob.get("off_farm_details", {}).get("reason", "") on a mob
\* whose off_farm_details is null raises AttributeError.
str_sensor_run ==
    IF str_mobs = <<>>
    THEN Returned(str_empty_output)
    ELSE LET data == try_load(str_mobs)
         IN  IF data.raised # ""
             THEN except_classes(data, {"JSONDecodeError", "OSError"},
                      [str_empty_output EXCEPT !.system_status = "error"])
             ELSE IF \E m \in DOMAIN data.value.mobs :
                        /\ data.value.mobs[m].off_farm
                        /\ data.value.mobs[m].off_farm_details = None
             THEN Raised("AttributeError")
             ELSE Returned(str_output(data.value))

\* print(json.dumps(...)): one JSON object on standard output, or the
\* traceback of the exception nobody caught and exit status 1
Printed(result) ==
    /\ rc' = IF result.raised = "" THEN 0 ELSE 1
    /\ out' = IF result.raised = ""
              THEN [status |-> "json", msg |-> "", val |-> <<result.value>>]
              ELSE [status |-> "Traceback", msg |-> result.raised,
                    val |-> <<>>]
    /\ UNCHANGED <<backend, damage, now, allFiles>>

str_sensor_main ==
    /\ backend = "str"
    /\ Printed(str_sensor_run)

STANDARD_ACTIVES == <<s_Glyphosate, s_Atrazine>>

\* ipm_sensor.py load_config
ipm_sensor_load_config ==
    IF ipm_config = <<>>
    THEN [locations |-> DEFAULT_LOCATIONS, custom_actives |-> <<>>]
    ELSE ipm_config[1]

\* len(data.get("inventory", {}).get("products", {}))
ipm_backup_count(backup) ==
    IF backup.data = None THEN 0
    ELSE Cardinality(DOMAIN backup.data[1].products)

\* the part of the output that main computes before it looks at
\* inventory.json
ipm_sensor_head ==
    LET config == ipm_sensor_load_config
        custom == SelectSeq(config.custom_actives, LAMBDA a : a.name # <<>>)
        merged ==
            [i \in 1..Len(STANDARD_ACTIVES) |->
                [name |-> STANDARD_ACTIVES[i], type |-> "standard",
                 common_groups |-> <<>>]]
            \o [i \in 1..Len(custom) |->
                [name |-> custom[i].name, type |-> "custom",
                 common_groups |-> custom[i].common_groups]]
        sorted == SortedByText(1..Len(merged),
                      [i \in 1..Len(merged) |-> Lower(merged[i].name)])
        backup_info ==
            get_backup_info([f \in DOMAIN backups |->
                                ipm_backup_count(backups[f])])
        config_exists == ipm_config # <<>>
        database_exists == ipm_inventory # <<>>
    IN  [categories |-> DOMAIN CATEGORY_SUBCATEGORIES,
         category_subcategories |-> CATEGORY_SUBCATEGORIES,
         locations |-> config.locations,
         system_status |->
             IF config_exists \/ database_exists
             THEN "ready" ELSE "not_initialized",
         config_exists |-> config_exists,
         database_exists |-> database_exists,
         custom_actives_count |-> Len(config.custom_actives),
         all_actives_list |-> [i \in 1..Len(sorted) |-> merged[sorted[i]]],
         backup_count |-> backup_info.backup_count,
         last_backup |-> backup_info.last_backup,
         backup_filenames |-> backup_info.backup_filenames,
         version |-> get_version]

\* empty_output
ipm_empty_output ==
    [total_products |-> 0,
     products |-> EmptyMap,
     product_names |-> <<>>,
     product_locations |-> EmptyMap,
     active_names |-> <<>>,
     locations_with_stock |-> <<>>,
     active_products_map |-> EmptyMap]
    @@ ipm_sensor_head

\* output, from the parsed document; the products kept here carry no
\* active constituents
ipm_output(data) ==
    LET products == data.products
        ids == DOMAIN products
        stock(p) == products[p].stock_by_location
        with_stock(p) == {l \in DOMAIN stock(p) : stock(p)[l] > 0}
        sorted_texts(S) == SortedByText(S, [x \in S |-> x])
        by_name == SortedByText(ids, [p \in ids |-> products[p].name])
        stocked == {p \in ids : with_stock(p) # {}}
    IN  [total_products |-> Cardinality(ids),
         products |->
             [p \in ids |->
                 [total_stock |-> SumOver(DOMAIN stock(p), stock(p))]
                 @@ products[p]],
         product_names |->
             [i \in 1..Len(by_name) |-> products[by_name[i]].name],
         product_locations |->
             [p \in stocked |-> sorted_texts(with_stock(p))],
         active_names |-> <<>>,
         locations_with_stock |->
             sorted_texts(UNION {with_stock(p) : p \in ids}),
         active_products_map |-> EmptyMap]
        @@ [ipm_sensor_head EXCEPT !.system_status = "ready"]

\* ipm_sensor.py main
ipm_sensor_run ==
    IF ipm_inventory = <<>>
    THEN Returned(ipm_empty_output)
    ELSE LET data == try_load(ipm_inventory)
         IN  IF data.raised # ""
             THEN except_classes(data, {"JSONDecodeError", "OSError"},
                      [ipm_empty_output EXCEPT !.system_status = "error"])
             ELSE Returned(ipm_output(data.value))

ipm_sensor_main ==
    /\ backend = "ipm"
    /\ Printed(ipm_sensor_run)
----------------------------------------------------------------------------
(* Command lines: the argument values the invocations are drawn from *)

StrIdArgs == {s_mob_1, s_mob_2}
StrTokenArgs == {s_CONFIRM, s_sp_CONFIRM, s_zz}
StrReasonArgs == {s_Sold, s_sp_Sold, s_Quarantine, s_zz, <<>>}
DeltaArgs == {-3, 0, 1}
StrEditArgs ==
    {<<Some(s_Mob2), None>>, <<None, Some(s_zz)>>}

\* name, age class, head count, location
StrAddArgs ==
    {<<s_Herd, s_Cows, 2, s_sw5>>, <<s_Herd, <<>>, -1, <<>>>>,
     <<<<>>, <<>>, 1, <<>>>>, <<s_Herd, s_zz, 1, <<>>>>,
     <<s_Herd, <<>>, 1, s_zz>>}

\* the movement log is followed up to MaxLog entries
StrLogBounded == str_mobs' # <<>> => Len(str_mobs'[1].movements) <= MaxLog

str_Next ==
    \/ \E u \in MobIds, a \in StrAddArgs :
          /\ cmd_add_mob(u, a[1], a[2], <<>>, a[3], a[4], <<>>, <<>>)
          /\ StrLogBounded
    \/ \E i \in StrIdArgs, e \in StrEditArgs :
          cmd_edit_mob(i, e[1], e[2], None, None) /\ StrLogBounded
    \/ \E i \in StrIdArgs, t \in StrTokenArgs :
          cmd_delete_mob(i, t) /\ StrLogBounded
    \/ \E i \in StrIdArgs, d \in DeltaArgs :
          cmd_adjust_count(i, d, <<>>, <<>>) /\ StrLogBounded
    \/ \E i \in StrIdArgs, r \in StrReasonArgs :
          cmd_set_off_farm(i, r, <<>>) /\ StrLogBounded
    \/ \E i \in StrIdArgs, l \in {s_sw5, s_zz} :
          cmd_return_to_farm(i, l, <<>>) /\ StrLogBounded

AsmEditArgs ==
    {<<Some(s_Pivot), None>>, <<None, Some(s_Pump)>>, <<None, Some(s_zz)>>}
AsmPartEditArgs ==
    {<<Some(s_Pivot), None, None>>, <<None, Some(s_Belt), Some(s_zz)>>,
     <<None, Some(s_zz), Some(s_L)>>}
AsmPartsArgs ==
    {<<>>, <<[part_id |-> s_p1, quantity |-> 1]>>,
     <<[part_id |-> s_p1, quantity |-> 2],
       [part_id |-> s_zz, quantity |-> 1]>>,
     <<[part_id |-> s_p1, quantity |-> 1],
       [part_id |-> s_p1, quantity |-> 0],
       [part_id |-> s_p1, quantity |-> 1]>>}
EventIdArgs ==
    {s_SE_ \o strftime_Ymd(0) \o <<"_">> \o Pad3(n) : n \in 1..2} \cup {<<>>}

\* name, category, unit, stock
AsmAddPartArgs ==
    {<<s_P1, s_Filter, s_L, 2>>, <<s_p1, <<>>, s_zz, -1>>,
     <<s_P1, s_zz, s_L, 0>>}

\* the transaction log is followed up to n entries
AsmLogBounded(n) == asm_data' # <<>> => Len(asm_data'[1].transactions) <= n

asm_Next ==
    \/ \E n \in {s_T1, s_t1}, c \in {<<>>, s_zz} :
          cmd_add_asset(n, c) /\ AsmLogBounded(MaxLog)
    \/ \E i \in {s_t1, s_p1}, e \in AsmEditArgs :
          cmd_edit_asset(i, e[1], e[2]) /\ AsmLogBounded(MaxLog)
    \/ \E i \in {s_t1, s_p1} : cmd_delete_asset(i) /\ AsmLogBounded(MaxLog)
    \/ \E a \in AsmAddPartArgs :
          cmd_add_part(a[1], a[2], a[3], a[4], 0) /\ AsmLogBounded(MaxLog)
    \/ \E i \in {s_t1, s_p1}, e \in AsmPartEditArgs :
          cmd_edit_part(i, e[1], e[2], e[3], None) /\ AsmLogBounded(MaxLog)
    \/ \E i \in {s_t1, s_p1} : cmd_delete_part(i) /\ AsmLogBounded(MaxLog)
    \/ \E i \in {s_t1, s_p1}, d \in DeltaArgs :
          cmd_adjust_stock(i, d) /\ AsmLogBounded(MaxLog)
    \/ \E a \in {s_t1, s_p1}, t \in {s_Repair, s_zz}, p \in AsmPartsArgs :
          cmd_record_service(a, t, p) /\ AsmLogBounded(MaxLog)
    \/ \E i \in EventIdArgs : cmd_delete_service(i) /\ AsmLogBounded(MaxLog)

\* name, category, subcategory, unit, min_stock
IpmEditArgs ==
    {<<Some(s_Grain), None, None, None, None>>,
     <<None, Some(s_seeds), None, Some(s_zz), None>>,
     <<None, Some(s_zz), None, None, None>>,
     <<None, None, Some(s_Wheat), None, Some(1)>>}
\* name, category, subcategory, unit, location, initial stock
IpmAddArgs ==
    {<<s_Urea, s_chemicals, s_Herbicide, s_kg, s_Chem_Shed, 2>>,
     <<s_urea, s_Chemical, <<>>, s_zz, s_zz, 1>>,
     <<s_Urea, s_seed, <<>>, s_kg, <<>>, 0>>,
     <<s_Urea, s_zz, <<>>, s_kg, <<>>, 0>>,
     <<s_Urea, s_seed, s_Herbicide, s_kg, <<>>, 0>>}

\* the transaction log is followed up to MaxLog entries
IpmLogBounded ==
    ipm_inventory' # <<>> => Len(ipm_inventory'[1].transactions) <= MaxLog

ipm_Next ==
    \/ \E a \in IpmAddArgs :
          /\ cmd_add_product(a[1], a[2], a[3], a[4], 0, a[5], a[6])
          /\ IpmLogBounded
    \/ \E i \in {s_urea, s_Grain}, e \in IpmEditArgs :
          cmd_edit_product(i, e[1], e[2], e[3], e[4], e[5]) /\ IpmLogBounded
    \/ \E i \in {s_urea, s_Grain}, l \in {s_Chem_Shed, s_zz},
          d \in DeltaArgs : cmd_move_stock(i, l, d) /\ IpmLogBounded
    \/ \E i \in {s_urea, s_Grain} : cmd_delete_product(i) /\ IpmLogBounded

Person(p, u, t) == [person_id |-> p, username |-> u, tracker_id |-> t]
Legacy(p, u, t) == [personID |-> p, username |-> u, trackerID |-> t]
JsonList(items) == [kind |-> "list", items |-> items]
JsonOther(kind) == [kind |-> kind, items |-> <<>>]
DiscoverArgs ==
    {JsonOther("empty"), JsonOther("malformed"), JsonOther("object"),
     JsonList(<<Person(s_person_a, s_amy, s_tracker_2),
                Person(s_person_a, s_amy, s_tracker_2)>>),
     JsonList(<<Person(s_sp_person_a, s_amy, s_tracker_1),
                Person(<<>>, s_bob, s_tracker_1)>>)}
LegacyUserFiles ==
    {JsonOther("absent"), JsonOther("malformed"),
     JsonList(<<Legacy(s_person_a, s_amy, s_tracker_1),
                Legacy(s_person_a, s_bob, s_tracker_2),
                Legacy(s_person_b, s_bob, s_tracker_2)>>)}
LegacyZoneFiles ==
    {JsonOther("absent"), JsonOther("malformed"),
     JsonList(<<[entity |-> s_zone_home, monitored |-> TRUE, away |-> FALSE,
                 name |-> s_Home]>>)}
wss_Next ==
    \/ \E j \in DiscoverArgs : cmd_discover_users(j)
    \/ \E p \in {s_person_a, s_sp_person_a, s_person_b, <<>>},
          t \in {s_tracker_1, s_tracker_2} : cmd_add_user(p, s_amy, t)
    \/ \E i \in {s_user_1, s_user_3, <<>>}, e \in {s_yes, s_false} :
          cmd_set_user_enabled(i, e)
    \/ \E uf \in LegacyUserFiles, zf \in LegacyZoneFiles :
          cmd_import_legacy(uf, zf)

SlotArgs == {s_1, s_2, s_9}
StationEditArgs ==
    {<<Some(s_South), None, None>>, <<Some(<<" ">>), Some(s_imei_2), Some(-34)>>}
\* name, imei, latitude
StationAddArgs ==
    {<<s_North, s_imei_1, Some(-36)>>, <<<<>>, s_imei_1, None>>,
     <<s_North, <<" ">>, None>>}

weather_Next ==
    \/ \E s \in SlotArgs, a \in StationAddArgs :
          cmd_add_station(s, a[1], a[2], a[3])
    \/ \E s \in SlotArgs, e \in StationEditArgs :
          cmd_edit_station(s, e[1], e[2], e[3])
    \/ \E s \in SlotArgs : cmd_remove_station(s)
    \/ \E s \in SlotArgs : cmd_set_station_enabled(s, FALSE)

\* category, location, name
ListUpsertArgs ==
    {<<s_seed, s_Shed, s_Urea>>, <<s_zz, s_shed_sp, s_sp_urea>>,
     <<s_seed, s_Shed, s_Urea_bang>>, <<s_seed, <<>>, s_Urea>>}

\* the transaction log is followed up to MaxLog entries; every ipm_list
\* call appends one
ListLogBounded == Len(list_load_data.transactions) < MaxLog

list_Next ==
    \/ \E a \in ListUpsertArgs :
          ListLogBounded /\ handle_upsert(a[1], a[2], a[3])
    \/ \E a \in ListUpsertArgs, u \in {<<s_Use, 1>>, <<s_add, 2>>} :
          ListLogBounded /\ handle_update(a[1], a[2], a[3], u[1], u[2])

\* the clock advances between invocations
Tick ==
    /\ now < MaxTime
    /\ now' = now + 1
    /\ UNCHANGED <<backend, damage, rc, out, allFiles>>

\* config.json as init, remove_off_farm_location Sold and
\* add_off_farm_location Quarantine leave it
EditedConfig ==
    [version |-> s_version_1_0_0,
     age_classes |-> DEFAULT_AGE_CLASSES,
     crosses |-> DEFAULT_CROSSES,
     attributes |-> DEFAULT_ATTRIBUTES,
     off_farm_locations |-> <<s_Feedlot, s_Quarantine>>,
     created |-> 0,
     modified |-> 0]

Backends == {"str", "asm", "ipm", "wss", "weather", "ipm_list"}

Init ==
    /\ backend \in Backends
    /\ damage = "none"
    /\ now = 0
    /\ rc = 0
    /\ out = [status |-> "", msg |-> "", val |-> <<>>]
    /\ str_mobs = <<>>
    /\ str_config \in IF backend = "str" THEN {<<>>, <<EditedConfig>>}
                      ELSE {<<>>}
    /\ asm_data = <<>>
    /\ ipm_inventory = <<>>
    /\ ipm_config = <<>>
    /\ wss_users = <<>>
    /\ wss_config = <<>>
    /\ weather_config = <<>>
    /\ list_data = <<>>
    /\ backups = EmptyMap

Next ==
    \/ Tick
    \/ str_Next
    \/ asm_Next
    \/ ipm_Next
    \/ wss_Next
    \/ weather_Next
    \/ list_Next

Spec == Init /\ [][Next]_vars

----------------------------------------------------------------------------
(* The service-event commands of asm on their own, with a longer audit     *)
(* list: the event ids of cmd_record_service depend on how many events     *)
(* were recorded and deleted before.                                       *)

ServiceIdArgs ==
    {s_SE_ \o strftime_Ymd(0) \o <<"_">> \o Pad3(n) : n \in 1..3}

service_Next ==
    \/ cmd_add_asset(s_T1, s_Tractor) /\ AsmLogBounded(MaxServiceLog)
    \/ cmd_add_part(s_P1, s_Filter, s_L, 3, 0) /\ AsmLogBounded(MaxServiceLog)
    \/ \E a \in {s_t1, s_p1}, t \in {s_Repair, s_zz}, p \in AsmPartsArgs :
          cmd_record_service(a, t, p) /\ AsmLogBounded(MaxServiceLog)
    \/ \E i \in ServiceIdArgs :
          cmd_delete_service(i) /\ AsmLogBounded(MaxServiceLog)

ServiceInit ==
    /\ Init
    /\ backend = "asm"

ServiceNext ==
    \/ Tick
    \/ service_Next

SpecService == ServiceInit /\ [][ServiceNext]_vars

----------------------------------------------------------------------------
(* The product categories on their own: the commands of ipm and ipm_list   *)
(* that take a category, over the four built-in categories, their          *)
(* synonyms and a word that is no category.                                *)

\* name, category, subcategory
CategoryAddArgs ==
    {<<s_Urea, s_fertilizer, <<>>>>,
     <<s_Urea, s_sp_Fertilizer_sp, s_Nitrogen>>,
     <<s_Urea, s_chemicals, s_Herbicide>>,
     <<s_Urea, s_oil, s_Grease>>,
     <<s_Grain, s_seeds, s_Wheat>>,
     <<s_Grain, s_seed, s_Herbicide>>,
     <<s_Grain, s_zz, <<>>>>}

\* category, subcategory
CategoryEditArgs ==
    {<<Some(s_seeds), None>>, <<Some(s_fertilizer), None>>,
     <<None, Some(s_Wheat)>>, <<None, Some(<<>>)>>,
     <<Some(s_oil), Some(s_Grease)>>, <<Some(s_zz), None>>,
     <<Some(s_chemicals), Some(s_Wheat)>>}

\* category, location, name
CategoryUpsertArgs ==
    {<<s_fertilizer, s_Shed, s_Urea>>, <<s_Fertiliser, <<>>, s_Urea>>,
     <<s_seeds, s_Shed, s_Grain>>, <<s_zz, s_Shed, s_Grain>>}

category_Next ==
    \/ \E a \in CategoryAddArgs :
          /\ cmd_add_product(a[1], a[2], a[3], s_kg, 0, <<>>, 0)
          /\ IpmLogBounded
    \/ \E i \in {s_urea, s_Grain}, e \in CategoryEditArgs :
          /\ cmd_edit_product(i, None, e[1], e[2], None, None)
          /\ IpmLogBounded
    \/ \E a \in CategoryUpsertArgs :
          ListLogBounded /\ handle_upsert(a[1], a[2], a[3])

CategoryBackends == {"ipm", "ipm_list"}

CategoryInit ==
    /\ Init
    /\ backend \in CategoryBackends

CategoryNext == Tick \/ category_Next

SpecCategory == CategoryInit /\ [][CategoryNext]_vars
----------------------------------------------------------------------------
(* The life of one mob: the str commands that change a mob record, with a  *)
(* movement list long enough for a mob to leave the farm, come back and    *)
(* be moved again.                                                         *)

\* the movement list is followed up to MaxMovements entries
MaxMovements == 4
MobLogBounded ==
    str_mobs' # <<>> => Len(str_mobs'[1].movements) <= MaxMovements

mob_Next ==
    \/ \E l \in {s_sw5, <<>>} :
          /\ cmd_add_mob(s_mob_1, s_Herd, s_Cows, <<>>, 2, l, <<>>, <<>>)
          /\ MobLogBounded
    \/ \E i \in StrIdArgs :
          /\ cmd_edit_mob(i, Some(s_Mob2), None, None, None)
          /\ MobLogBounded
    \/ \E i \in StrIdArgs, d \in {-3, 0} :
          cmd_adjust_count(i, d, <<>>, <<>>) /\ MobLogBounded
    \/ \E i \in StrIdArgs, l \in {s_n1, s_zz, <<>>} :
          cmd_move_mob(i, l, <<>>) /\ MobLogBounded
    \/ \E i \in StrIdArgs, r \in {s_Sold, s_zz} :
          cmd_set_off_farm(i, r, <<>>) /\ MobLogBounded
    \/ \E i \in StrIdArgs, l \in {s_sw5, s_zz, <<>>} :
          cmd_return_to_farm(i, l, <<>>) /\ MobLogBounded
    \/ \E i \in StrIdArgs, a \in {s_weaned, s_zz} :
          cmd_toggle_attribute(i, a) /\ MobLogBounded

MobInit ==
    /\ Init
    /\ backend = "str"
    /\ str_config = <<>>

MobNext == Tick \/ mob_Next

SpecMob == MobInit /\ [][MobNext]_vars
----------------------------------------------------------------------------
(* Service events next to the deletion of what they refer to: the asm      *)
(* commands that add and delete assets, parts and service events.          *)

reference_Next ==
    \/ cmd_add_asset(s_T1, s_Tractor) /\ AsmLogBounded(MaxServiceLog)
    \/ cmd_add_part(s_P1, s_Filter, s_L, 3, 0) /\ AsmLogBounded(MaxServiceLog)
    \/ \E i \in {s_t1, s_p1} :
          cmd_delete_asset(i) /\ AsmLogBounded(MaxServiceLog)
    \/ \E i \in {s_t1, s_p1} :
          cmd_delete_part(i) /\ AsmLogBounded(MaxServiceLog)
    \/ \E a \in {s_t1, s_p1}, p \in AsmPartsArgs :
          cmd_record_service(a, s_Repair, p) /\ AsmLogBounded(MaxServiceLog)
    \/ \E i \in ServiceIdArgs :
          cmd_delete_service(i) /\ AsmLogBounded(MaxServiceLog)

ReferenceInit ==
    /\ Init
    /\ backend = "asm"

ReferenceNext == Tick \/ reference_Next

SpecReference == ReferenceInit /\ [][ReferenceNext]_vars
----------------------------------------------------------------------------
(* The data management commands (export, import, reset) next to the        *)
(* commands that fill the document.  The backups directory starts with     *)
(* files that were copied into it by hand.                                 *)

\* files no backend wrote: a backup of another farm's empty inventory with
\* a location list of its own, a file that does not parse, an inventory
\* under the marker of another tool, and a file with the marker of the
\* backend and nothing else
ForeignFiles ==
    LET marker == IF backend = "ipm" THEN "ipm_backup" ELSE "str_backup"
        empty_data ==
            IF backend = "ipm"
            THEN [products |-> EmptyMap, transactions |-> <<>>]
            ELSE [mobs |-> EmptyMap, movements |-> <<>>,
                  created |-> 0, modified |-> 0]
        own_config ==
            IF backend = "ipm"
            THEN [locations |-> <<s_Shed>>, custom_actives |-> <<>>,
                  created |-> 0, modified |-> 0]
            ELSE EditedConfig
    IN  (s_farm_json :>
            [json |-> TRUE, type |-> marker, note |-> "", created |-> 0,
             data |-> Some(empty_data), config |-> Some(own_config)])
        @@ (s_notes_txt :>
            [json |-> FALSE, type |-> "", note |-> "", created |-> NoStamp,
             data |-> None, config |-> None])
        @@ (s_old_json :>
            [json |-> TRUE, type |-> "asm_backup", note |-> "",
             created |-> NoStamp, data |-> Some(empty_data),
             config |-> None])
        @@ (s_empty_json :>
            [json |-> TRUE, type |-> marker, note |-> "",
             created |-> NoStamp, data |-> None, config |-> None])

\* the names an import is given: a file of the directory, as listed or
\* padded with a blank, or a name that is not there
FilenameArgs ==
    DOMAIN backups \cup {<<" ">> \o s_farm_json, s_missing_json, <<>>}

ResetTokenArgs == {s_CONFIRM_RESET, s_sp_CONFIRM_RESET, s_CONFIRM}

\* the backups directory is followed up to MaxBackups written files
BackupsBounded ==
    Cardinality(DOMAIN backups' \ DOMAIN ForeignFiles) <= MaxBackups

ipm_data_Next ==
    \/ cmd_add_product(s_Urea, s_chemicals, s_Herbicide, s_kg, 0,
                       s_Chem_Shed, 2) /\ IpmLogBounded
    \/ cmd_move_stock(s_urea, s_Chem_Shed, -3) /\ IpmLogBounded
    \/ ipm_cmd_export /\ BackupsBounded
    \/ \E f \in FilenameArgs :
          ipm_cmd_import(f) /\ BackupsBounded /\ IpmLogBounded
    \/ \E t \in ResetTokenArgs : ipm_cmd_reset(t) /\ BackupsBounded

str_data_Next ==
    \/ /\ cmd_add_mob(s_mob_1, s_Herd, s_Cows, <<>>, 2, s_sw5, <<>>, <<>>)
       /\ StrLogBounded
    \/ cmd_delete_mob(s_mob_1, s_CONFIRM) /\ StrLogBounded
    \/ str_cmd_export /\ BackupsBounded
    \/ \E f \in FilenameArgs :
          cmd_import_backup(f) /\ BackupsBounded /\ StrLogBounded
    \/ \E t \in ResetTokenArgs : str_cmd_reset(t) /\ BackupsBounded

DataBackends == {"ipm", "str"}

DataInit ==
    /\ backend \in DataBackends
    /\ damage = "none"
    /\ now = 0
    /\ rc = 0
    /\ out = [status |-> "", msg |-> "", val |-> <<>>]
    /\ str_mobs = <<>>
    /\ str_config = <<>>
    /\ asm_data = <<>>
    /\ ipm_inventory = <<>>
    /\ ipm_config = <<>>
    /\ wss_users = <<>>
    /\ wss_config = <<>>
    /\ weather_config = <<>>
    /\ list_data = <<>>
    /\ backups = ForeignFiles

DataNext ==
    \/ Tick
    \/ ipm_data_Next
    \/ str_data_Next

SpecData == DataInit /\ [][DataNext]_vars

----------------------------------------------------------------------------
(* The config vocabulary commands of ipm and str, with the record commands *)
(* that make records refer to a vocabulary entry.                          *)

LocationArgs == {s_Shed, s_shed_sp, s_Chem_Shed, s_chem_shed, s_zz, <<>>}
OffFarmLocationArgs == {s_Quarantine, s_sp_Sold, s_zz, <<>>}
AgeClassArgs == {s_Poddies, s_Cows, <<>>}
AttributeIdArgs == {s_weaned, s_zz, <<>>}

ipm_vocab_Next ==
    \/ \E l \in {s_Chem_Shed, s_Shed} :
          /\ cmd_add_product(s_Urea, s_chemicals, s_Herbicide, s_kg, 0, l, 2)
          /\ IpmLogBounded
    \/ \E l \in {s_Chem_Shed, s_Shed}, d \in {-3, 1} :
          cmd_move_stock(s_urea, l, d) /\ IpmLogBounded
    \/ \E n \in LocationArgs : cmd_add_location(n)
    \/ \E n \in LocationArgs : cmd_remove_location(n)

str_vocab_Next ==
    \/ /\ cmd_add_mob(s_mob_1, s_Herd, s_Cows, <<>>, 2, s_sw5, <<>>, <<>>)
       /\ StrLogBounded
    \/ cmd_edit_mob(s_mob_1, None, Some(s_Poddies), None, None)
    \/ \E a \in AttributeIdArgs : cmd_toggle_attribute(s_mob_1, a)
    \/ \E r \in {s_Quarantine, s_Sold} :
          cmd_set_off_farm(s_mob_1, r, <<>>) /\ StrLogBounded
    \/ cmd_return_to_farm(s_mob_1, s_sw5, <<>>) /\ StrLogBounded
    \/ \E n \in OffFarmLocationArgs : cmd_add_off_farm_location(n)
    \/ \E n \in OffFarmLocationArgs : cmd_remove_off_farm_location(n)
    \/ \E n \in AgeClassArgs : cmd_add_age_class(n)
    \/ \E n \in AgeClassArgs : cmd_remove_age_class(n)
    \/ \E a \in AttributeIdArgs : cmd_remove_attribute_type(a)

VocabBackends == {"ipm", "str"}

\* the config files are not there yet, so the built-in lists are in force
VocabInit ==
    /\ Init
    /\ backend \in VocabBackends
    /\ str_config = <<>>

\* the clock stands still: no vocabulary command reads a time stamp
VocabNext ==
    \/ ipm_vocab_Next
    \/ str_vocab_Next

SpecVocab == VocabInit /\ [][VocabNext]_vars
----------------------------------------------------------------------------
(* The readers of the data files on their own: a data file is built by     *)
(* ordinary commands, damaged, and read by the load functions and the      *)
(* sensors.  The commands run on an undamaged file only.                   *)

LoadBackends == {"ipm", "asm", "str", "ipm_list"}

LoadInit ==
    /\ Init
    /\ backend \in LoadBackends
    /\ str_config = <<>>

LoadNext ==
    \/ Tick
    \/ \E a \in IpmAddArgs :
          /\ damage = "none"
          /\ cmd_add_product(a[1], a[2], a[3], a[4], 0, a[5], a[6])
          /\ IpmLogBounded
    \/ \E a \in AsmAddPartArgs :
          /\ damage = "none"
          /\ cmd_add_part(a[1], a[2], a[3], a[4], 0)
          /\ AsmLogBounded(MaxLog)
    \/ \E u \in MobIds, a \in StrAddArgs :
          /\ damage = "none"
          /\ cmd_add_mob(u, a[1], a[2], <<>>, a[3], a[4], <<>>, <<>>)
          /\ StrLogBounded
    \/ \E a \in ListUpsertArgs :
          /\ damage = "none"
          /\ ListLogBounded
          /\ handle_upsert(a[1], a[2], a[3])
    \/ \E k \in DamageKinds : damage_file(k)
    \/ call_load_inventory
    \/ call_load_data
    \/ call_load_mobs
    \/ call_list_load_data
    \/ str_sensor_main
    \/ ipm_sensor_main

SpecLoad == LoadInit /\ [][LoadNext]_vars
----------------------------------------------------------------------------
(* Properties *)

\* the stock of a product at a location, absent meaning none
StockAt(product, location) ==
    IF location \in DOMAIN product.stock_by_location
    THEN product.stock_by_location[location] ELSE 0

\* C1: every successful quantity adjustment of an existing record (asm
\* adjust_stock, ipm move_stock, str adjust_count) reports max(0, current +
\* delta), and that is the quantity the document holds afterwards.
C1_AdjustmentStoresAndReportsClamp ==
    [][ /\ \A i \in {s_t1, s_p1}, d \in DeltaArgs :
            LET id == Upper(Strip(i))
                parts == asm_load_data.parts
            IN  (id \in DOMAIN parts /\ cmd_adjust_stock(i, d)) =>
                   LET q == Max(0, parts[id].stock + d)
                   IN  /\ rc' = 0
                       /\ out'.val = <<q>>
                       /\ asm_data'[1].parts[id].stock = q
        /\ \A i \in {s_urea, s_Grain}, l \in {s_Chem_Shed, s_zz},
              d \in DeltaArgs :
            LET id == Upper(Strip(i))
                products == load_inventory.products
            IN  (id \in DOMAIN products /\ cmd_move_stock(i, l, d)) =>
                   LET q == Max(0, StockAt(products[id], Strip(l)) + d)
                   IN  /\ rc' = 0
                       /\ out'.val = <<q>>
                       /\ StockAt(ipm_inventory'[1].products[id], Strip(l)) = q
        /\ \A i \in StrIdArgs, d \in DeltaArgs :
            LET id == Strip(i)
                mobs == load_mobs.mobs
            IN  (id \in DOMAIN mobs /\ cmd_adjust_count(i, d, <<>>, <<>>)) =>
                   LET q == Max(0, mobs[id].head_count + d)
                   IN  /\ rc' = 0
                       /\ out'.val = <<q>>
                       /\ str_mobs'[1].mobs[id].head_count = q
      ]_vars

\* C2: set_off_farm on a mob that is already off-farm, and return_to_farm on
\* a mob that is on-farm, fail and leave mobs.json (records and movements)
\* and config.json as they were.
C2_WrongStateTransitionFails ==
    [][ \A i \in StrIdArgs :
          LET id == Strip(i)
              mobs == load_mobs.mobs
          IN  id \in DOMAIN mobs =>
                /\ \A r \in StrReasonArgs :
                     (mobs[id].off_farm /\ cmd_set_off_farm(i, r, <<>>))
                        => rc' = 1 /\ UNCHANGED strFiles
                /\ \A l \in {s_sw5, s_zz} :
                     (~mobs[id].off_farm /\ cmd_return_to_farm(i, l, <<>>))
                        => rc' = 1 /\ UNCHANGED strFiles
      ]_vars

\* a set_off_farm was refused on a mob that is off-farm
C2_Witness ==
    /\ rc = 1
    /\ out.msg = "Mob is already off-farm"
    /\ \E id \in DOMAIN load_mobs.mobs : load_mobs.mobs[id].off_farm

\* what a successful set_off_farm with the reason stored as `reason` leaves
OffFarmEffect(id, reason) ==
    LET mob == load_mobs.mobs[id]
        m == str_mobs'[1].mobs[id]
    IN  /\ rc' = 0
        /\ m.off_farm
        /\ m.location = <<>>
        /\ m.off_farm_details # None
        /\ m.off_farm_details[1].reason = reason
        /\ m.off_farm_details[1].date = now
        /\ m.off_farm_details[1].from_location = mob.location

\* C3 as stated: set_off_farm on an on-farm mob succeeds exactly when the
\* reason given is a member of config.off_farm_locations, and then stores
\* that reason, the date and the prior location, sets off_farm and clears
\* location; any other reason is rejected with no change.
C3_ReasonGivenIsListMember ==
    [][ \A i \in StrIdArgs, r \in StrReasonArgs :
          LET id == Strip(i)
              mobs == load_mobs.mobs
          IN  (id \in DOMAIN mobs /\ ~mobs[id].off_farm
                 /\ cmd_set_off_farm(i, r, <<>>)) =>
                IF InList(r, str_load_config.off_farm_locations)
                THEN OffFarmEffect(id, r)
                ELSE rc' = 1 /\ UNCHANGED strFiles
      ]_vars

\* C3 amended: the reason is compared and stored with the surrounding
\* whitespace removed; set_off_farm on an on-farm mob succeeds exactly when
\* the trimmed reason is a member of config.off_farm_locations.
C3_TrimmedReasonIsListMember ==
    [][ \A i \in StrIdArgs, r \in StrReasonArgs :
          LET id == Strip(i)
              mobs == load_mobs.mobs
          IN  (id \in DOMAIN mobs /\ ~mobs[id].off_farm
                 /\ cmd_set_off_farm(i, r, <<>>)) =>
                IF InList(Strip(r), str_load_config.off_farm_locations)
                THEN OffFarmEffect(id, Strip(r))
                ELSE rc' = 1 /\ UNCHANGED strFiles
      ]_vars

\* a mob was sent off-farm for a reason of the configured list
C3_Witness ==
    /\ rc = 0
    /\ out.msg = "off_farm:{}"
    /\ \E id \in DOMAIN load_mobs.mobs :
          /\ load_mobs.mobs[id].off_farm
          /\ load_mobs.mobs[id].off_farm_details # None
          /\ load_mobs.mobs[id].off_farm_details[1].from_location = s_sw5
          /\ InList(load_mobs.mobs[id].off_farm_details[1].reason,
                    str_load_config.off_farm_locations)

\* C4 as stated: delete_mob on an existing mob removes it exactly when the
\* token given equals "CONFIRM"; with any other token it fails and mobs.json
\* is unchanged.
C4_ExactTokenDeletes ==
    [][ \A i \in StrIdArgs, t \in StrTokenArgs :
          LET id == Strip(i)
          IN  (id \in DOMAIN load_mobs.mobs /\ cmd_delete_mob(i, t)) =>
                IF t = s_CONFIRM
                THEN rc' = 0 /\ id \notin DOMAIN str_mobs'[1].mobs
                ELSE rc' = 1 /\ UNCHANGED strFiles
      ]_vars

\* C4 amended: the token is compared with the surrounding whitespace
\* removed; delete_mob on an existing mob removes it exactly when the
\* trimmed token equals "CONFIRM".
C4_TrimmedTokenDeletes ==
    [][ \A i \in StrIdArgs, t \in StrTokenArgs :
          LET id == Strip(i)
          IN  (id \in DOMAIN load_mobs.mobs /\ cmd_delete_mob(i, t)) =>
                IF Strip(t) = s_CONFIRM
                THEN rc' = 0 /\ id \notin DOMAIN str_mobs'[1].mobs
                ELSE rc' = 1 /\ UNCHANGED strFiles
      ]_vars

\* a delete_mob was refused and the mob is still there
C4_Witness ==
    /\ rc = 1
    /\ out.msg = "Delete requires --token CONFIRM"
    /\ DOMAIN load_mobs.mobs # {}

\* C5: an invocation that exits with code 1 leaves every persisted file as
\* it was.
C5_ErrorWritesNothing ==
    [][ rc' = 1 => UNCHANGED allFiles ]_vars

\* C6: add_part with a unit outside PART_UNITS, and move_stock to a location
\* outside the configured locations, fail and write nothing.
C6_InvalidUnitOrLocationRejected ==
    [][ /\ \A a \in AsmAddPartArgs :
            (a[3] # <<>> /\ ~InList(Strip(a[3]), PART_UNITS)
               /\ cmd_add_part(a[1], a[2], a[3], a[4], 0))
              => rc' = 1 /\ UNCHANGED allFiles
        /\ \A i \in {s_urea, s_Grain}, l \in {s_Chem_Shed, s_zz},
              d \in DeltaArgs :
            (~InList(Strip(l), get_locations) /\ cmd_move_stock(i, l, d))
              => rc' = 1 /\ UNCHANGED allFiles
      ]_vars

\* C7: no two entries of service_events carry the same id.
C7_ServiceEventIdsUnique ==
    LET events == asm_load_data.service_events
    IN  \A i, j \in 1..Len(events) :
           events[i].id = events[j].id => i = j

\* the natural key find_product compares
ListKey(product) ==
    <<Lower(Strip(product.name)), Lower(Strip(product.location))>>

\* C8: no two wss users share a person_id, and no two ipm_list products
\* share the same case-insensitive trimmed name and location.
C8_NaturalKeysUnique ==
    /\ LET users == load_users.users
       IN  \A u, v \in DOMAIN users :
              users[u].person_id = users[v].person_id => u = v
    /\ LET products == list_load_data.products
       IN  \A i, j \in 1..Len(products) :
              ListKey(products[i]) = ListKey(products[j]) => i = j

\* an add_user for a person already registered reused the user's id while
\* another user is registered too
C8_Witness ==
    /\ rc = 0
    /\ out.msg = "updated:{}"
    /\ Cardinality(DOMAIN load_users.users) >= 2
    /\ out.val[1] \in DOMAIN load_users.users

\* C9: add_asset, add_part and add_product whose derived id is already in
\* the collection, and add_station on a configured slot, fail and leave
\* every file as it was.
C9_DuplicateCreateFails ==
    [][ /\ \A n \in {s_T1, s_t1}, c \in {<<>>, s_zz} :
            (asm_generate_id(n) \in DOMAIN asm_load_data.assets
               /\ cmd_add_asset(n, c))
              => rc' = 1 /\ UNCHANGED allFiles
        /\ \A a \in AsmAddPartArgs :
            (asm_generate_id(a[1]) \in DOMAIN asm_load_data.parts
               /\ cmd_add_part(a[1], a[2], a[3], a[4], 0))
              => rc' = 1 /\ UNCHANGED allFiles
        /\ \A a \in IpmAddArgs :
            (ipm_generate_id(a[1]) \in DOMAIN load_inventory.products
               /\ cmd_add_product(a[1], a[2], a[3], a[4], 0, a[5], a[6]))
              => rc' = 1 /\ UNCHANGED allFiles
        /\ \A s \in SlotArgs, a \in StationAddArgs :
            (s \in DOMAIN weather_load_config.stations
               /\ cmd_add_station(s, a[1], a[2], a[3]))
              => rc' = 1 /\ UNCHANGED allFiles
      ]_vars

\* an add_asset was refused because the id is in use
C9_Witness ==
    /\ rc = 1
    /\ out.msg = "Asset '{}' already exists"
    /\ out.val[1] \in DOMAIN asm_load_data.assets

\* the names of the fields an edit was given
Supplied(names, args) ==
    {names[k] : k \in {k \in 1..Len(args) : args[k] # None}}

\* the collection after an edit of record id: the same ids, every other
\* record as it was, and of the record itself only the supplied fields and
\* modified may differ
EditFrame(old, new, id, supplied) ==
    /\ DOMAIN new = DOMAIN old
    /\ \A k \in DOMAIN old \ {id} : new[k] = old[k]
    /\ DOMAIN new[id] = DOMAIN old[id]
    /\ \A f \in DOMAIN old[id] \ (supplied \cup {"modified"}) :
          new[id][f] = old[id][f]

\* C10: a successful edit_mob, edit_asset, edit_part, edit_product or
\* edit_station changes, of the record, at most the fields it was given and
\* modified, and changes no other record; an edit of an id that is not in
\* the collection fails with the not-found error and changes nothing.
C10_EditOverwritesOnlySupplied ==
    [][ /\ \A i \in StrIdArgs, e \in StrEditArgs :
            cmd_edit_mob(i, e[1], e[2], None, None) =>
              IF Strip(i) \in DOMAIN load_mobs.mobs
              THEN rc' = 0 =>
                     EditFrame(load_mobs.mobs, str_mobs'[1].mobs, Strip(i),
                               Supplied(<<"name", "age_class">>, e))
              ELSE /\ rc' = 1
                   /\ out'.msg = "Mob '{}' not found"
                   /\ UNCHANGED allFiles
        /\ \A i \in {s_t1, s_p1}, e \in AsmEditArgs :
            cmd_edit_asset(i, e[1], e[2]) =>
              IF Upper(Strip(i)) \in DOMAIN asm_load_data.assets
              THEN rc' = 0 =>
                     /\ EditFrame(asm_load_data.assets, asm_data'[1].assets,
                                  Upper(Strip(i)),
                                  Supplied(<<"name", "category">>, e))
                     /\ asm_data'[1].parts = asm_load_data.parts
              ELSE /\ rc' = 1
                   /\ out'.msg = "Asset '{}' not found"
                   /\ UNCHANGED allFiles
        /\ \A i \in {s_t1, s_p1}, e \in AsmPartEditArgs :
            cmd_edit_part(i, e[1], e[2], e[3], None) =>
              IF Upper(Strip(i)) \in DOMAIN asm_load_data.parts
              THEN rc' = 0 =>
                     /\ EditFrame(asm_load_data.parts, asm_data'[1].parts,
                                  Upper(Strip(i)),
                                  Supplied(<<"name", "category", "unit">>, e))
                     /\ asm_data'[1].assets = asm_load_data.assets
              ELSE /\ rc' = 1
                   /\ out'.msg = "Part '{}' not found"
                   /\ UNCHANGED allFiles
        /\ \A i \in {s_urea, s_Grain}, e \in IpmEditArgs :
            cmd_edit_product(i, e[1], e[2], e[3], e[4], e[5]) =>
              IF Upper(Strip(i)) \in DOMAIN load_inventory.products
              THEN rc' = 0 =>
                     EditFrame(load_inventory.products,
                               ipm_inventory'[1].products, Upper(Strip(i)),
                               Supplied(<<"name", "category", "subcategory",
                                          "unit", "min_stock">>, e))
              ELSE /\ rc' = 1
                   /\ out'.msg = "Product '{}' not found"
                   /\ UNCHANGED allFiles
        /\ \A s \in SlotArgs, e \in StationEditArgs :
            cmd_edit_station(s, e[1], e[2], e[3]) =>
              IF s \in DOMAIN weather_load_config.stations
              THEN rc' = 0 =>
                     EditFrame(weather_load_config.stations,
                               weather_config'[1].stations, s,
                               Supplied(<<"name", "imei", "latitude">>, e))
              ELSE /\ rc' = 1
                   /\ UNCHANGED allFiles
                   /\ InList(s, VALID_SLOTS) => out'.msg =
                        "Slot {} not configured. Use add_station first."
      ]_vars

\* an edit_mob renamed a mob at a later time and left its age class, head
\* count and location as add_mob stored them
C10_Witness ==
    /\ rc = 0
    /\ \E id \in DOMAIN load_mobs.mobs :
          LET mob == load_mobs.mobs[id]
          IN  /\ mob.name = s_Mob2
              /\ mob.age_class = s_Cows
              /\ mob.head_count = 2
              /\ mob.location = s_sw5
              /\ mob.modified > mob.created

\* the audit list of a data file, none where there is no file
AuditLog(file, key) == IF file = <<>> THEN <<>> ELSE file[1][key]

IsPrefix(s, t) == Len(s) <= Len(t) /\ SubSeq(t, 1, Len(s)) = s

\* C11: for every backend operation the transactions/movements list before
\* the operation is a prefix of the list after it.
C11_AuditLogOnlyGrows ==
    [][ /\ IsPrefix(AuditLog(ipm_inventory, "transactions"),
                    AuditLog(ipm_inventory', "transactions"))
        /\ IsPrefix(AuditLog(str_mobs, "movements"),
                    AuditLog(str_mobs', "movements"))
        /\ IsPrefix(AuditLog(asm_data, "transactions"),
                    AuditLog(asm_data', "transactions"))
      ]_vars


\* the record collections of the data files, empty where there is no file
MobsOf(file) == IF file = <<>> THEN EmptyMap ELSE file[1].mobs
ProductsOf(file) == IF file = <<>> THEN EmptyMap ELSE file[1].products
AssetsOf(file) == IF file = <<>> THEN EmptyMap ELSE file[1].assets
PartsOf(file) == IF file = <<>> THEN EmptyMap ELSE file[1].parts

\* the save appended one entry, stamped with the clock, to the audit list
OneEntryAppended(before, after) ==
    /\ Len(after) = Len(before) + 1
    /\ IsPrefix(before, after)
    /\ after[Len(after)].timestamp = now

\* C12: every successful command that changes a record of the mobs, products,
\* assets or parts collection appends one timestamped audit entry to the
\* movements/transactions list in the save that persists the change.
C12_EveryMutationLogged ==
    [][ /\ (rc' = 0 /\ MobsOf(str_mobs') # MobsOf(str_mobs))
            => OneEntryAppended(AuditLog(str_mobs, "movements"), AuditLog(str_mobs', "movements"))
        /\ (rc' = 0 /\ ProductsOf(ipm_inventory') # ProductsOf(ipm_inventory))
            => OneEntryAppended(AuditLog(ipm_inventory, "transactions"), AuditLog(ipm_inventory', "transactions"))
        /\ (rc' = 0 /\ (AssetsOf(asm_data') # AssetsOf(asm_data) \/ PartsOf(asm_data') # PartsOf(asm_data)))
            => OneEntryAppended(AuditLog(asm_data, "transactions"), AuditLog(asm_data', "transactions"))
      ]_vars

\* the quantity the --parts items ask of the part, counting the items with a
\* positive quantity only
RECURSIVE QuantityAsked(_, _)
QuantityAsked(a_parts, part_id) ==
    IF a_parts = <<>> THEN 0
    ELSE (IF /\ Upper(Strip(Head(a_parts).part_id)) = part_id
             /\ Head(a_parts).quantity > 0
          THEN Head(a_parts).quantity ELSE 0)
         + QuantityAsked(Tail(a_parts), part_id)

\* what a record_service on an existing asset does to the data file
ServiceRecorded(a_parts) ==
    LET data == asm_data[1]
        data1 == asm_data'[1]
        event == data1.service_events[Len(data1.service_events)]
    IN  /\ rc' = 0
        /\ data1.service_events = Append(data.service_events, event)
        /\ Len(data1.transactions) = Len(data.transactions) + 1
        /\ IsPrefix(data.transactions, data1.transactions)
        /\ data1.assets = data.assets
        /\ DOMAIN data1.parts = DOMAIN data.parts
        /\ \A id \in DOMAIN data.parts :
              data1.parts[id] = [data.parts[id] EXCEPT
                  !.stock = Max(0, @ - QuantityAsked(a_parts, id))]
        /\ \A i \in 1..Len(event.parts_consumed) :
              /\ event.parts_consumed[i].part_id \in DOMAIN data.parts
              /\ event.parts_consumed[i].quantity > 0

\* C13: a record_service on an existing asset appends one service event and
\* one audit entry and, in the same write, takes the consumed quantity off
\* the stock of every consumed part, clamped at zero; parts_consumed holds
\* existing parts with positive quantity only; a record_service on a missing
\* asset fails and changes nothing.
C13_RecordServiceFansOut ==
    [][ \A a \in {s_t1, s_p1}, t \in {s_Repair, s_zz}, p \in AsmPartsArgs :
          cmd_record_service(a, t, p) =>
            IF Upper(Strip(a)) \in DOMAIN asm_load_data.assets
            THEN ServiceRecorded(p)
            ELSE rc' = 1 /\ UNCHANGED allFiles
      ]_vars

\* a service that asked for more of a part than was in stock was recorded
C13_Witness ==
    /\ backend = "asm"
    /\ asm_data # <<>>
    /\ \E i \in 1..Len(asm_data[1].service_events) :
          LET pcs == asm_data[1].service_events[i].parts_consumed
          IN  /\ Len(pcs) = 2
              /\ pcs[1].part_id = pcs[2].part_id
    /\ \E id \in DOMAIN asm_data[1].parts : asm_data[1].parts[id].stock = 0

\* every entry of the built-in list is in the configured list
AllIn(builtin, list) == \A i \in 1..Len(builtin) : InList(builtin[i], list)

\* C14: no sequence of config commands removes an entry of a built-in default
\* list (storage locations, age classes, attribute types, off-farm
\* locations) from the config.
C14_BuiltInsNeverRemoved ==
    /\ AllIn(DEFAULT_LOCATIONS, ipm_load_config.locations)
    /\ AllIn(DEFAULT_AGE_CLASSES, str_load_config.age_classes)
    /\ AllIn(DEFAULT_ATTRIBUTES, str_load_config.attributes)
    /\ AllIn(DEFAULT_OFF_FARM_LOCATIONS, str_load_config.off_farm_locations)

\* the config lists with one entry taken out, everything else as it was
ListsAfterRemoval(config_after, config, key, entry) ==
    /\ config_after[key] = Without(config[key], entry)
    /\ \A k \in DOMAIN config \ {key, "modified"} : config_after[k] = config[k]

\* the outcome the claim gives a remove command on a str config list
StrRemoval(key, name, referenced) ==
    IF name # <<>> /\ InList(name, str_load_config[key])
    THEN IF referenced
         THEN rc' = 1 /\ UNCHANGED allFiles
         ELSE /\ rc' = 0
              /\ ListsAfterRemoval(str_config'[1], str_load_config, key, name)
              /\ UNCHANGED str_mobs
    ELSE rc' = 1 /\ UNCHANGED allFiles

\* the entry of the ipm location list the name stands for: names are
\* compared without regard to case
LocationNamed(name) ==
    LET locations == ipm_load_config.locations
        hits == {i \in 1..Len(locations) : Lower(locations[i]) = Lower(name)}
    IN  IF name = <<>> \/ hits = {} THEN None
        ELSE Some(locations[CHOOSE i \in hits : \A j \in hits : i <= j])

SnapshotsOf(dir, data, config) ==
    {f \in DOMAIN dir : /\ dir[f].json
                        /\ dir[f].data = Some(data)
                        /\ dir[f].config = Some(config)}

\* C16: after every successful import_backup and every successful reset the
\* backups directory holds a snapshot file with the document and the config
\* as they were before the operation, whatever the document holds.
C16_SnapshotBeforeImportAndReset ==
    [][ /\ \A f \in FilenameArgs : (ipm_cmd_import(f) /\ rc' = 0) =>
              SnapshotsOf(backups', load_inventory, ipm_load_config) # {}
        /\ \A t \in ResetTokenArgs : (ipm_cmd_reset(t) /\ rc' = 0) =>
              SnapshotsOf(backups', load_inventory, ipm_load_config) # {}
        /\ \A f \in FilenameArgs : (cmd_import_backup(f) /\ rc' = 0) =>
              SnapshotsOf(backups', load_mobs, str_load_config) # {}
        /\ \A t \in ResetTokenArgs : (str_cmd_reset(t) /\ rc' = 0) =>
              SnapshotsOf(backups', load_mobs, str_load_config) # {}
      ]_vars

\* C17: no operation changes or removes a file that is in the backups
\* directory: every snapshot goes to a file name that was not there before.
C17_SnapshotsNeverOverwritten ==
    [][ \A f \in DOMAIN backups :
            f \in DOMAIN backups' /\ backups'[f] = backups[f] ]_vars

\* a config or document without its modified stamp
Unstamped(config) == [config EXCEPT !.modified = NoStamp]

\* the last command was a successful import_backup: its output names the
\* automatic pre-import snapshot it wrote
JustImported == rc = 0 /\ out.msg = "imported:{n}:{}"

\* C18: a successful import_backup leaves a pre-import snapshot that holds
\* the document and the config as they were (state S), and an import_backup
\* of that snapshot right after it brings the document and, but for the
\* modified stamp, the config back to what the snapshot holds, which is S.
C18_DoubleUndo ==
    [][ \A f \in FilenameArgs :
          /\ (ipm_cmd_import(f) /\ rc' = 0) =>
                /\ out'.val[2] \in DOMAIN backups'
                /\ backups'[out'.val[2]].data = Some(load_inventory)
                /\ backups'[out'.val[2]].config = Some(ipm_load_config)
          /\ (JustImported /\ Strip(f) = out.val[2] /\ ipm_cmd_import(f)) =>
                /\ rc' = 0
                /\ ipm_inventory' = <<backups[out.val[2]].data[1]>>
                /\ Unstamped(ipm_config'[1])
                       = Unstamped(backups[out.val[2]].config[1])
          /\ (cmd_import_backup(f) /\ rc' = 0) =>
                /\ out'.val[2] \in DOMAIN backups'
                /\ backups'[out'.val[2]].data = Some(load_mobs)
                /\ backups'[out'.val[2]].config = Some(str_load_config)
          /\ (JustImported /\ Strip(f) = out.val[2] /\ cmd_import_backup(f)) =>
                /\ rc' = 0
                /\ Unstamped(str_mobs'[1])
                       = Unstamped(backups[out.val[2]].data[1])
                /\ Unstamped(str_config'[1])
                       = Unstamped(backups[out.val[2]].config[1])
      ]_vars

\* an import of another farm's backup has been undone: the snapshot of the
\* first import holds the document that is back in place, the snapshot of
\* the second one holds what the first import had brought in
C18_Witness ==
    /\ JustImported
    /\ DOMAIN load_inventory.products # {}
    /\ Unstamped(ipm_load_config).locations = DEFAULT_LOCATIONS
    /\ \E p1 \in DOMAIN backups :
          /\ p1 # out.val[2]
          /\ backups[p1].note = "Pre-import automatic backup"
          /\ backups[p1].data = Some(load_inventory)
          /\ backups[out.val[2]].data = ForeignFiles[s_farm_json].data
          /\ backups[out.val[2]].config[1].locations = <<s_Shed>>

\* the file an import names is missing, does not parse, or carries another
\* type marker than the backend's
NotAcceptable(filename, marker) ==
    \/ filename \notin DOMAIN backups
    \/ ~backups[filename].json
    \/ backups[filename].type # marker

\* C19: an import_backup of a file that is missing, is not valid JSON or has
\* another type marker fails and leaves the document, the config and the
\* backups directory as they were.
C19_ImportValidatesFirst ==
    [][ \A f \in FilenameArgs :
          /\ (ipm_cmd_import(f) /\ NotAcceptable(Strip(f), "ipm_backup")) =>
                /\ rc' = 1
                /\ out'.status = "ERROR"
                /\ UNCHANGED allFiles
          /\ (cmd_import_backup(f) /\ NotAcceptable(Strip(f), "str_backup")) =>
                /\ rc' = 1
                /\ out'.status = "ERROR"
                /\ UNCHANGED allFiles
      ]_vars

\* an import of a well-formed inventory under another tool's marker was
\* turned down
C19_Witness ==
    /\ backend = "ipm"
    /\ rc = 1
    /\ out.msg = "File is not a valid IPM backup"
    /\ \E f \in DOMAIN backups :
          /\ backups[f].json
          /\ backups[f].type # "ipm_backup"
          /\ backups[f].data # None
    /\ DOMAIN load_inventory.products # {}

\* every location key of every product holds a quantity above zero
StockKeysPositive ==
    \A p \in DOMAIN load_inventory.products :
        \A l \in DOMAIN load_inventory.products[p].stock_by_location :
            load_inventory.products[p].stock_by_location[l] > 0

\* C20: after any sequence of add_product and move_stock calls every key of a
\* product's stock_by_location maps to a quantity above zero; a move_stock
\* that takes a location to zero or below reports 0 and removes the key.
C20_ZeroStockKeyRemoved ==
    /\ []StockKeysPositive
    /\ [][ \A i \in {s_urea, s_Grain}, l \in {s_Chem_Shed, s_zz}, d \in DeltaArgs :
             (/\ cmd_move_stock(i, l, d)
              /\ rc' = 0
              /\ d # 0
              /\ StockAt(load_inventory.products[Upper(Strip(i))], Strip(l)) + d <= 0)
             => /\ out'.val = <<0>>
                /\ Strip(l) \notin DOMAIN ipm_inventory'[1].products[Upper(Strip(i))].stock_by_location
         ]_vars

\* a move_stock of -3 on the 2 units at a location reported 0 and left the
\* product without a key for the location
C20_Witness ==
    /\ backend = "ipm"
    /\ rc = 0
    /\ out.msg = "{n}"
    /\ out.val = <<0>>
    /\ s_UREA \in DOMAIN load_inventory.products
    /\ load_inventory.products[s_UREA].stock_by_location = EmptyMap
    /\ LET log == load_inventory.transactions
       IN  /\ Len(log) = 2
           /\ log[1].delta = 2
           /\ log[2].delta = -3
           /\ log[2].location = s_Chem_Shed

\* C21: a quantity adjustment with delta zero on an existing record (ipm
\* move_stock, asm adjust_stock, str adjust_count) returns success, appends
\* no audit entry and leaves every persisted document as it was.
C21_ZeroDeltaChangesNothing ==
    [][ /\ \A i \in {s_urea, s_Grain}, l \in {s_Chem_Shed, s_zz} :
              (/\ cmd_move_stock(i, l, 0)
               /\ Upper(Strip(i)) \in DOMAIN load_inventory.products)
              => rc' = 0 /\ out'.status = "OK" /\ UNCHANGED allFiles
        /\ \A i \in {s_t1, s_p1} :
              (/\ cmd_adjust_stock(i, 0)
               /\ Upper(Strip(i)) \in DOMAIN asm_load_data.parts)
              => rc' = 0 /\ out'.status = "OK" /\ UNCHANGED allFiles
        /\ \A i \in StrIdArgs :
              (/\ cmd_adjust_count(i, 0, <<>>, <<>>)
               /\ Strip(i) \in DOMAIN load_mobs.mobs)
              => rc' = 0 /\ out'.status = "OK" /\ UNCHANGED allFiles
      ]_vars

\* an adjust_stock with delta zero on a part that holds stock answered OK:0
C21_Witness ==
    /\ backend = "asm"
    /\ rc = 0
    /\ out.msg = "{n}"
    /\ out.val = <<0>>
    /\ \E id \in DOMAIN asm_load_data.parts : asm_load_data.parts[id].stock > 0
    /\ \A id \in DOMAIN asm_load_data.parts : asm_load_data.parts[id].stock > 0

----------------------------------------------------------------------------
\* what a load call in the present state must hand back: the parsed
\* document of an intact file, the empty default document otherwise
Expected(file, default) ==
    IF file # <<>> /\ damage = "none" THEN file[1] ELSE default

\* C22: load never raises to its caller: whatever the state of the backing
\* file (absent, empty, truncated, malformed JSON, malformed encoding), the
\* load functions of ipm, asm and str return the module's empty default
\* document, and the parsed document when the file is intact.
C22_LoadNeverRaises ==
    [][ /\ call_load_inventory =>
              /\ out'.status = "loaded"
              /\ out'.val = <<Expected(ipm_inventory, ipm_empty_document)>>
        /\ call_load_data =>
              /\ out'.status = "loaded"
              /\ out'.val = <<Expected(asm_data, asm_empty_document)>>
        /\ call_load_mobs =>
              /\ out'.status = "loaded"
              /\ out'.val = <<Expected(str_mobs, str_empty_document)>>
      ]_vars

\* the same without the malformed encoding: what the except clauses cover
C22_DecodableFileLoads ==
    [][ damage # "malformed_encoding" =>
          /\ call_load_inventory =>
                /\ out'.status = "loaded"
                /\ out'.val = <<Expected(ipm_inventory, ipm_empty_document)>>
          /\ call_load_data =>
                /\ out'.status = "loaded"
                /\ out'.val = <<Expected(asm_data, asm_empty_document)>>
          /\ call_load_mobs =>
                /\ out'.status = "loaded"
                /\ out'.val = <<Expected(str_mobs, str_empty_document)>>
      ]_vars

----------------------------------------------------------------------------
\* C23: the sensor output has a fixed shape per module: whatever the state
\* of the source document (missing, unparsable, empty, populated), one run
\* of the str or the ipm sensor prints one JSON object, and its set of
\* top-level keys is always the same.
C23_SensorShapeFixed ==
    [][ /\ str_sensor_main =>
              /\ out'.status = "json"
              /\ DOMAIN out'.val[1] = DOMAIN str_empty_output
        /\ ipm_sensor_main =>
              /\ out'.status = "json"
              /\ DOMAIN out'.val[1] = DOMAIN ipm_empty_output
      ]_vars

\* the same for the files that decode: the ipm sensor keeps its shape, the
\* str sensor does so as long as mobs.json is missing or unparsable
C23_ShapeOfDecodableFile ==
    [][ damage # "malformed_encoding" =>
          /\ ipm_sensor_main =>
                /\ out'.status = "json"
                /\ DOMAIN out'.val[1] = DOMAIN ipm_empty_output
          /\ str_sensor_main =>
                /\ out'.status = "json"
                /\ DOMAIN out'.val[1] =
                      IF str_mobs # <<>> /\ damage = "none"
                      THEN DOMAIN str_empty_output
                           \cup {"location_summaries", "age_class_summaries"}
                      ELSE DOMAIN str_empty_output
      ]_vars

----------------------------------------------------------------------------
\* the document of a data file carries modified = the present time
Stamped(file) ==
    /\ file # <<>>
    /\ "modified" \in DOMAIN file[1]
    /\ file[1].modified = now

\* C24: every save stamps the document's modified field with the current
\* time: after a successful mutation in any module (ipm, asm, str) the
\* persisted data document carries modified = the time of that save.
C24_SaveStampsModified ==
    [][ /\ ipm_inventory' # ipm_inventory => Stamped(ipm_inventory')
        /\ asm_data' # asm_data => Stamped(asm_data')
        /\ str_mobs' # str_mobs => Stamped(str_mobs')
      ]_vars

\* the part that save_mobs of str keeps
C24_StrSaveStampsModified ==
    [][str_mobs' # str_mobs => Stamped(str_mobs')]_vars

----------------------------------------------------------------------------
\* the products of the ipm_list document
ListProducts(file) ==
    IF file = <<>> THEN {}
    ELSE {file[1].products[i] : i \in 1..Len(file[1].products)}

\* C25: add_product with name "Urea" and category "fertilizer" generates an
\* id beginning with FERT_UREA_ and stores the category as "Fertiliser": the
\* synonym is normalized before both id derivation and storage.  Stated for
\* add_product of ipm and for upsert of ipm_list, on a document that has no
\* Urea yet.
C25_SynonymNormalizedInIdAndCategory ==
    [][ /\ (/\ cmd_add_product(s_Urea, s_fertilizer, <<>>, s_kg, 0, <<>>, 0)
            /\ rc' = 0)
           => \E id \in DOMAIN ProductsOf(ipm_inventory')
                        \ DOMAIN ProductsOf(ipm_inventory) :
                 /\ IsPrefix(s_FERT_UREA_, id)
                 /\ ProductsOf(ipm_inventory')[id].category = s_Fertiliser
        /\ (/\ handle_upsert(s_fertilizer, s_Shed, s_Urea)
            /\ ListProducts(list_data) = {})
           => \E p \in ListProducts(list_data') :
                 /\ IsPrefix(s_FERT_UREA_, p.id)
                 /\ p.category = s_Fertiliser
      ]_vars

\* what the two commands do instead: ipm derives the id from the name alone
\* and stores the normalized category; ipm_list derives the id from the
\* category and stores the category as typed
C25_WhatEachCommandStores ==
    [][ /\ (/\ cmd_add_product(s_Urea, s_fertilizer, <<>>, s_kg, 0, <<>>, 0)
            /\ rc' = 0)
           => /\ DOMAIN ProductsOf(ipm_inventory')
                    \ DOMAIN ProductsOf(ipm_inventory) = {s_UREA}
              /\ ProductsOf(ipm_inventory')[s_UREA].category = s_Fertiliser
        /\ (/\ handle_upsert(s_fertilizer, s_Shed, s_Urea)
            /\ ListProducts(list_data) = {})
           => \E p \in ListProducts(list_data') :
                 /\ IsPrefix(s_FERT_UREA_, p.id)
                 /\ p.category = s_fertilizer
      ]_vars

----------------------------------------------------------------------------
\* the subcategory of a product is empty or listed under its category
SubcategoryFits(product) ==
    /\ product.category \in DOMAIN CATEGORY_SUBCATEGORIES
    /\ \/ product.subcategory = <<>>
       \/ InList(product.subcategory,
                 CATEGORY_SUBCATEGORIES[product.category])

\* C28: in every state reachable through add_product and edit_product of
\* ipm, each product's category is one of the four built-in categories and
\* its subcategory is empty or a member of the subcategory list of the
\* product's current category, also after an edit_product that changes only
\* the category.
C28_SubcategoryFitsCategory ==
    \A id \in DOMAIN ProductsOf(ipm_inventory) :
        SubcategoryFits(ProductsOf(ipm_inventory)[id])

\* the half that holds: the category is always one of the four
C28_CategoryBuiltIn ==
    \A id \in DOMAIN ProductsOf(ipm_inventory) :
        ProductsOf(ipm_inventory)[id].category
            \in {s_Chemical, s_Fertiliser, s_Seed, s_Lubricant}

\* a step other than a category-only edit keeps the products in shape
C28_OtherStepsKeepFit ==
    [][ (/\ C28_SubcategoryFitsCategory
         /\ ~ \E i \in {s_urea, s_Grain}, c \in {s_seeds, s_fertilizer, s_zz} :
                cmd_edit_product(i, None, Some(c), None, None, None))
        => C28_SubcategoryFitsCategory' ]_vars

----------------------------------------------------------------------------
\* off_farm is true exactly when off_farm_details is non-null, and an
\* off-farm mob has an empty location
OffFarmConsistent(mob) ==
    /\ mob.off_farm <=> mob.off_farm_details # None
    /\ mob.off_farm => mob.location = <<>>

\* C26: in every state reachable through add_mob, edit_mob, adjust_count,
\* move_mob, set_off_farm, return_to_farm and toggle_attribute each mob has
\* off_farm true exactly when off_farm_details is non-null, and an off-farm
\* mob has an empty location; move_mob on an off-farm mob is rejected
\* without change; return_to_farm sets the location to the validated
\* destination paddock and clears off_farm_details.
C26_OffFarmStateConsistent ==
    /\ [](\A m \in DOMAIN MobsOf(str_mobs) :
             OffFarmConsistent(MobsOf(str_mobs)[m]))
    /\ [][ /\ \A i \in StrIdArgs, l \in {s_n1, s_zz, <<>>} :
                 (/\ cmd_move_mob(i, l, <<>>)
                  /\ Strip(i) \in DOMAIN MobsOf(str_mobs)
                  /\ MobsOf(str_mobs)[Strip(i)].off_farm)
                 => rc' = 1 /\ UNCHANGED allFiles
           /\ \A i \in StrIdArgs, l \in {s_sw5, s_zz, <<>>} :
                 (cmd_return_to_farm(i, l, <<>>) /\ rc' = 0)
                 => /\ Strip(l) \in DOMAIN load_registry.paddocks
                    /\ MobsOf(str_mobs')[Strip(i)].location = Strip(l)
                    /\ MobsOf(str_mobs')[Strip(i)].off_farm_details = None
                    /\ ~MobsOf(str_mobs')[Strip(i)].off_farm
         ]_vars

\* a mob that had a paddock is off-farm, after it was off-farm and back
\* once before and a move of it was turned down
C26_Witness ==
    /\ backend = "str"
    /\ str_mobs # <<>>
    /\ \E m \in DOMAIN str_mobs[1].mobs :
          /\ str_mobs[1].mobs[m].off_farm
          /\ str_mobs[1].mobs[m].off_farm_details[1].from_location = s_sw5
    /\ \E i \in 1..Len(str_mobs[1].movements) :
          str_mobs[1].movements[i].action = s_return
    /\ rc = 1
    /\ out.msg = "Cannot move off-farm mob. Return to farm first."

----------------------------------------------------------------------------
\* C27: in every state reachable from an empty asm document through
\* add_part, edit_part, adjust_stock, record_service, delete_service and
\* delete_part, whatever the numeric arguments (a negative initial --stock
\* included), every part's stock is >= 0.
C27_StockNeverNegative ==
    \A p \in DOMAIN PartsOf(asm_data) : PartsOf(asm_data)[p].stock >= 0

\* the commands that change the stock of a part that is there keep it
\* non-negative; a negative stock only ever comes in with add_part
C27_PresentPartsStayNonNegative ==
    [][ \A p \in DOMAIN PartsOf(asm_data) \cap DOMAIN PartsOf(asm_data') :
           PartsOf(asm_data)[p].stock >= 0
           => PartsOf(asm_data')[p].stock >= 0 ]_vars

----------------------------------------------------------------------------
\* the service events of the asm document
EventsOf(file) == IF file = <<>> THEN <<>> ELSE file[1].service_events

\* the asset and the parts an event names are in the collections
Resolves(event, file) ==
    /\ event.asset_id \in DOMAIN AssetsOf(file)
    /\ \A i \in 1..Len(event.parts_consumed) :
          event.parts_consumed[i].part_id \in DOMAIN PartsOf(file)

\* C29: referential integrity of service events: in every state reachable
\* through add_asset, delete_asset, add_part, delete_part, record_service
\* and delete_service, every service event's asset_id is the id of an asset
\* in the assets collection and every part_id of its parts_consumed is the
\* id of a part in the parts collection.
C29_ServiceEventsResolve ==
    \A i \in 1..Len(EventsOf(asm_data)) :
        Resolves(EventsOf(asm_data)[i], asm_data)

\* record_service itself only writes events that resolve
C29_RecordedEventResolves ==
    [][ \A a \in {s_t1, s_p1}, p \in AsmPartsArgs :
           (cmd_record_service(a, s_Repair, p) /\ rc' = 0)
           => Resolves(EventsOf(asm_data')[Len(EventsOf(asm_data'))],
                       asm_data') ]_vars

----------------------------------------------------------------------------
\* the users of the wss document
UsersOf(file) == IF file = <<>> THEN EmptyMap ELSE file[1].users

\* a step keeps every user on file: a user whose person is named by the
\* command differs at most in username and device id, every other user is
\* as before, and a user that is new has both admin flags off
KnownUsersKept(named) ==
    LET before == UsersOf(wss_users)
        after == UsersOf(wss_users')
    IN  /\ \A uid \in DOMAIN before :
              /\ uid \in DOMAIN after
              /\ IF before[uid].person_id \in named
                 THEN [after[uid] EXCEPT
                          !.username = before[uid].username,
                          !.tracker_id = before[uid].tracker_id]
                      = before[uid]
                 ELSE after[uid] = before[uid]
        /\ \A uid \in DOMAIN after \ DOMAIN before :
              /\ ~after[uid].enabled
              /\ ~after[uid].track_external

====
